---- MODULE Spec2Model ----
(***************************************************************************)
(* Week-calculation engine of LifeTime (backend/app/services/              *)
(* week_calculation.py): date arithmetic, timezone-aware "now", special-   *)
(* week classification and life-progress aggregation.                      *)
(*                                                                         *)
(* A datetime.date is modelled by its proleptic Gregorian ordinal          *)
(* (date.toordinal(): 0001-01-01 is 1), so date comparison is <, and       *)
(* date +/- timedelta(days=n) is integer +/-.  An instant of the wall      *)
(* clock is modelled in whole hours since ordinal 0, 00:00 UTC.            *)
(***************************************************************************)
EXTENDS Integers, Sequences, FiniteSets, TLC

VARIABLES clock, server_tz, offset_fault, ticks, call, result, users, notes,
          clients, uptime, admitted, request_given, edit_history, json_tracking

vars == <<clock, server_tz, offset_fault, ticks, call, result, users, notes,
          clients, uptime, admitted, request_given, edit_history,
          json_tracking>>

\* what no call changes: the zone of the server process, the day, if any,
\* on which the zone database fails, and how the mapping of the JSON column
\* edit_history writes a list back (see the edit history below)
environment == <<server_tz, offset_fault, json_tracking>>

\* the rows of the users and notes tables, the column edit_history of the
\* notes held aside in `edit_history`, one list for each row of `notes`; the
\* week calculation service reads none of them
database == <<users, notes, edit_history>>

\* the rate limiter of the process: `clients` is RateLimiter.clients, the
\* timestamps kept for each client id; `uptime` is the reading of
\* time.time() in seconds since the process started; `admitted` is a history
\* of the program, not a field of it: for each limit, the times of the
\* requests of that limit that were let through; `request_given` is whether
\* the decorated endpoints declare a Request parameter, so that the wrapper
\* of rate_limit finds a Request among their arguments
limiter == <<clients, uptime, admitted, request_given>>

(***************************************************************************)
(* Bounds of the model.                                                    *)
(***************************************************************************)
\* birth dates are drawn from DobFirst .. DobFirst + DobSpanDays (and a few
\* named dates, see DobChoices)
DobSpanDays == 9
\* week indices are drawn from -1 .. MaxWeekIndex (and a few named ones)
MaxWeekIndex == 10
\* lifespans are drawn from 0 .. MaxSmallLifespan (and the limits around 150)
MaxSmallLifespan == 5
\* the wall clock advances at most MaxTicks times
MaxTicks == 2

(***************************************************************************)
(* datetime.date / calendar                                                *)
(***************************************************************************)
isleap(y) == (y % 4 = 0) /\ ((y % 100 # 0) \/ (y % 400 = 0))

DaysInMonth(y, m) ==
    IF m = 2 THEN (IF isleap(y) THEN 29 ELSE 28)
    ELSE IF m \in {4, 6, 9, 11} THEN 30 ELSE 31

DaysBeforeYear(y) ==
    (y - 1) * 365 + ((y - 1) \div 4) - ((y - 1) \div 100) + ((y - 1) \div 400)

DaysBeforeMonthTable == <<0, 31, 59, 90, 120, 151, 181, 212, 243, 273, 304, 334>>

DaysBeforeMonth(y, m) ==
    DaysBeforeMonthTable[m] + (IF m > 2 /\ isleap(y) THEN 1 ELSE 0)

\* date(y, m, d) raises ValueError unless the triple names a calendar day
ValidDate(y, m, d) ==
    /\ y >= 1 /\ y <= 9999
    /\ m \in 1..12
    /\ d >= 1 /\ d <= DaysInMonth(y, m)

\* date(y, m, d), as its ordinal
date(y, m, d) == DaysBeforeYear(y) + DaysBeforeMonth(y, m) + d

\* d.year
YearOf(d) ==
    LET n    == d - 1
        n400 == n \div 146097
        r400 == n % 146097
        n100 == r400 \div 36524
        r100 == r400 % 36524
        n4   == r100 \div 1461
        r4   == r100 % 1461
        n1   == r4 \div 365
        y    == n400 * 400 + n100 * 100 + n4 * 4 + n1 + 1
    IN  IF n1 = 4 \/ n100 = 4 THEN y - 1 ELSE y

\* d.month
MonthOf(d) ==
    LET y   == YearOf(d)
        doy == d - DaysBeforeYear(y)
    IN  CHOOSE m \in 1..12 :
            /\ DaysBeforeMonth(y, m) < doy
            /\ doy <= DaysBeforeMonth(y, m) + DaysInMonth(y, m)

\* d.day
DayOf(d) ==
    LET y == YearOf(d) IN d - DaysBeforeYear(y) - DaysBeforeMonth(y, MonthOf(d))

\* d.weekday(): Monday is 0, Sunday is 6
weekday(d) == (d + 6) % 7

(***************************************************************************)
(* Outcome of a call: a returned value or a raised exception.              *)
(***************************************************************************)
Return(v) == [raised |-> "None", value |-> v]
Raise(e)  == [raised |-> e]

\* the rest of a method, `then`, runs on the value of a call that returned;
\* an exception of the call propagates
Bind(r, then(_)) == IF r.raised # "None" THEN r ELSE then(r.value)

\* a local variable of a method: `then` runs with the value bound
Let(v, then(_)) == then(v)

\* the rest of a method, `r`, runs if the validation `v` raised nothing
Guard(v, r) == IF v # "None" THEN Raise(v) ELSE r

(***************************************************************************)
(* zoneinfo: the part of the IANA database the model draws from.  The      *)
(* America/New_York rule is the one in force since 2007 (second Sunday of  *)
(* March 02:00 to first Sunday of November 02:00); before 1918 the zone    *)
(* has no daylight saving time.  No date of the model falls in 1918..2006. *)
(***************************************************************************)
ZoneInfoKeys == {"UTC", "America/New_York", "Asia/Tokyo"}

\* str.upper() on the timezone strings of the model
upper(s) ==
    CASE s = "UTC"              -> "UTC"
      [] s = "utc"              -> "UTC"
      [] s = "America/New_York" -> "AMERICA/NEW_YORK"
      [] s = "america/new_york" -> "AMERICA/NEW_YORK"
      [] s = "Asia/Tokyo"       -> "ASIA/TOKYO"

FirstSundayOnOrAfter(d) == d + ((6 - weekday(d)) % 7)

DstStartDay(y) == FirstSundayOnOrAfter(date(y, 3, 1)) + 7

DstEndDay(y) == FirstSundayOnOrAfter(date(y, 11, 1))

\* datetime.combine(d, time.min).replace(tzinfo=zone).utcoffset(), in hours
utcoffset(zone, d) ==
    CASE zone = "UTC"        -> 0
      [] zone = "Asia/Tokyo" -> 9
      [] zone = "America/New_York" ->
            LET y == YearOf(d)
            IN  IF y >= 2007 /\ DstStartDay(y) < d /\ d <= DstEndDay(y)
                THEN -4 ELSE -5

\* utcoffset() raises on the day offset_fault; 0 is no day
utcoffset_raises(d) == offset_fault # 0 /\ d = offset_fault

\* the offset of the zone at an instant t (hours since ordinal 0, UTC)
utcoffset_at(zone, t) ==
    CASE zone = "UTC"        -> 0
      [] zone = "Asia/Tokyo" -> 9
      [] zone = "America/New_York" ->
            LET y == YearOf(t \div 24)
            IN  IF /\ y >= 2007
                   /\ t >= DstStartDay(y) * 24 + 7
                   /\ t <  DstEndDay(y) * 24 + 6
                THEN -4 ELSE -5

\* datetime.now(tz): the local wall-clock reading, in hours since ordinal 0
datetime_now(zone, t) == t + utcoffset_at(zone, t)

\* datetime.date()
date_of(dt) == dt \div 24

\* date.today(): the civil date in the zone of the server process
today(t) == date_of(datetime_now(server_tz, t))

(***************************************************************************)
(* dateutil.relativedelta                                                  *)
(***************************************************************************)
\* date(year, month, min(day, days in that month))
ClippedDate(year, month, day) ==
    date(year, month,
         IF day < DaysInMonth(year, month) THEN day ELSE DaysInMonth(year, month))

\* the date of year `year`, month number `m0` in -10..23 and day `day`, the
\* month carried into the year
CarriedDate(year, m0, day) ==
    IF m0 > 12 THEN ClippedDate(year + 1, m0 - 12, day)
    ELSE IF m0 < 1 THEN ClippedDate(year - 1, m0 + 12, day)
    ELSE ClippedDate(year, m0, day)

\* d + relativedelta(years=.., months=..) given as a signed month count
AddMonths(d, months) ==
    LET yrs == IF months < 0 THEN -((-months) \div 12) ELSE months \div 12
        mns == IF months < 0 THEN -((-months) % 12) ELSE months % 12
    IN  CarriedDate(YearOf(d) + yrs, MonthOf(d) + mns, DayOf(d))

\* d + relativedelta(years=n)
AddYears(d, n) == AddMonths(d, 12 * n)

RECURSIVE RelMonths(_, _, _)
\* the month count relativedelta(dt1, dt2) settles on
RelMonths(dt1, dt2, months) ==
    LET dtm == AddMonths(dt2, months)
    IN  IF dt1 < dt2
        THEN IF dt1 > dtm THEN RelMonths(dt1, dt2, months + 1) ELSE months
        ELSE IF dt1 < dtm THEN RelMonths(dt1, dt2, months - 1) ELSE months

\* the years, months, days of relativedelta(dt1, dt2), its month count given
RelativeDeltaOf(dt1, dt2, months) ==
    [years  |-> IF months < 0 THEN -((-months) \div 12) ELSE months \div 12,
     months |-> IF months < 0 THEN -((-months) % 12) ELSE months % 12,
     days   |-> dt1 - AddMonths(dt2, months)]

\* relativedelta(dt1, dt2) for two dates
relativedelta(dt1, dt2) ==
    RelativeDeltaOf(dt1, dt2,
        RelMonths(dt1, dt2,
            (YearOf(dt1) - YearOf(dt2)) * 12 + (MonthOf(dt1) - MonthOf(dt2))))

(***************************************************************************)
(* WeekCalculationService.  Every operator takes the instant `now` at      *)
(* which the call reads the clock and yields Return(value) or Raise(kind). *)
(***************************************************************************)
WeekTypes == {"normal", "birthday", "year_start", "leap_day", "dst_transition"}

\* isinstance(dob, date): a date has an ordinal of 1 (date.min) or more, and
\* 0 stands for an argument that is no date
IsDate(dob) == dob >= 1

\* validate_date_of_birth refusing the date of today
validate_date_of_birth_strict(dob, now) ==
    IF ~IsDate(dob) THEN "InvalidDateError"
    ELSE IF dob >= today(now) THEN "FutureDateError"
    ELSE IF YearOf(dob) < 1900 THEN "InvalidDateError"
    ELSE "None"

\* "None", or the exception validate_date_of_birth raises
validate_date_of_birth(dob, now) ==
    IF ~IsDate(dob) THEN "InvalidDateError"
    ELSE IF dob > today(now) THEN "FutureDateError"
    ELSE IF YearOf(dob) < 1900 THEN "InvalidDateError"
    ELSE "None"

validate_timezone(timezone) ==
    IF timezone \in ZoneInfoKeys
    THEN Return(timezone)
    ELSE Raise("InvalidTimezoneError")

get_timezone_aware_datetime(timezone, now) ==
    IF upper(timezone) = "UTC"
    THEN Return(datetime_now("UTC", now))
    ELSE Bind(validate_timezone(timezone), LAMBDA tz_info :
         Return(datetime_now(tz_info, now)))

\* calculate_total_weeks with a year taken as 365.25 days
calculate_total_weeks_approx(dob, lifespan_years, now) ==
    Guard(validate_date_of_birth(dob, now),
        IF lifespan_years <= 0 THEN Raise("ValueError")
        ELSE IF lifespan_years > 150 THEN Raise("ValueError")
        ELSE Return(((lifespan_years * 1461) \div 4) \div 7))

\* calculate_total_weeks refusing a lifespan of 150 years
calculate_total_weeks_below_150(dob, lifespan_years, now) ==
    Guard(validate_date_of_birth(dob, now),
        IF lifespan_years <= 0 THEN Raise("ValueError")
        ELSE IF lifespan_years >= 150 THEN Raise("ValueError")
        ELSE Let(AddYears(dob, lifespan_years), LAMBDA end_date :
             Let(end_date - dob, LAMBDA total_days :
             Return(total_days \div 7))))

\* calculate_total_weeks checking the lifespan before the birth date
calculate_total_weeks_lifespan_first(dob, lifespan_years, now) ==
    IF lifespan_years <= 0 THEN Raise("ValueError")
    ELSE IF lifespan_years > 150 THEN Raise("ValueError")
    ELSE Guard(validate_date_of_birth(dob, now),
         Let(AddYears(dob, lifespan_years), LAMBDA end_date :
         Let(end_date - dob, LAMBDA total_days :
         Return(total_days \div 7))))

calculate_total_weeks(dob, lifespan_years, now) ==
    Guard(validate_date_of_birth(dob, now),
        IF lifespan_years <= 0 THEN Raise("ValueError")
        ELSE IF lifespan_years > 150 THEN Raise("ValueError")
        ELSE Let(AddYears(dob, lifespan_years), LAMBDA end_date :
             Let(end_date - dob, LAMBDA total_days :
             Return(total_days \div 7))))

calculate_current_week_index(dob, timezone, now) ==
    Guard(validate_date_of_birth(dob, now),
        Bind(get_timezone_aware_datetime(timezone, now), LAMBDA n :
        Let(date_of(n), LAMBDA current_date :
        Let(current_date - dob, LAMBDA days_since_birth :
        IF days_since_birth < 0 THEN Return(0)
        ELSE Return(days_since_birth \div 7)))))

\* get_week_start_date without the check of the week index
get_week_start_date_unchecked(dob, week_index, now) ==
    Guard(validate_date_of_birth(dob, now),
        Return(dob + 7 * week_index))

\* get_week_start_date taking a year for 52 weeks and a day
get_week_start_date_by_year(dob, week_index, now) ==
    Guard(validate_date_of_birth(dob, now),
        IF week_index < 0 THEN Raise("ValueError")
        ELSE Return(dob + 7 * week_index + (week_index \div 52)))

get_week_start_date(dob, week_index, now) ==
    Guard(validate_date_of_birth(dob, now),
        IF week_index < 0 THEN Raise("ValueError")
        ELSE Return(dob + 7 * week_index))

\* get_week_end_date returning the first day of the next week
get_week_end_date_exclusive(dob, week_index, now) ==
    Bind(get_week_start_date(dob, week_index, now), LAMBDA start_date :
    Return(start_date + 7))

get_week_end_date(dob, week_index, now) ==
    Bind(get_week_start_date(dob, week_index, now), LAMBDA start_date :
    Return(start_date + 6))

\* date(week_start.year, dob.month, dob.day) raises ValueError
BirthdayWeekRaises(dob, week_start) ==
    ~ValidDate(YearOf(week_start), MonthOf(dob), DayOf(dob))

\* The for loop of _is_birthday_week runs the same body in each of its 199
\* iterations, the anniversary being computed from week_start.year every
\* time: either every iteration takes `continue` and the loop runs out
\* (anniversary < week_start), or the first iteration returns True or breaks.
BirthdayLoop(anniversary, week_start, week_end) ==
    IF anniversary < week_start THEN FALSE
    ELSE IF week_start <= anniversary /\ anniversary <= week_end THEN TRUE
    ELSE FALSE

_is_birthday_week(dob, week_start, week_end) ==
    IF BirthdayWeekRaises(dob, week_start) THEN Raise("ValueError")
    ELSE Return(BirthdayLoop(date(YearOf(week_start), MonthOf(dob), DayOf(dob)),
                             week_start, week_end))

\* _is_year_start_week without the year-boundary check
_is_year_start_week_same_year(week_start, week_end) ==
    Let(date(YearOf(week_start), 1, 1), LAMBDA jan_1 :
    week_start <= jan_1 /\ jan_1 <= week_end)

_is_year_start_week(week_start, week_end) ==
    Let(date(YearOf(week_start), 1, 1), LAMBDA jan_1 :
    IF week_start <= jan_1 /\ jan_1 <= week_end THEN TRUE
    ELSE IF YearOf(week_start) # YearOf(week_end) THEN TRUE
    ELSE FALSE)

\* the branch of _is_leap_day_week for a week that starts in a leap year
LeapDayFirstBranch(week_start, week_end) ==
    Let(date(YearOf(week_start), 2, 29), LAMBDA leap_day :
    week_start <= leap_day /\ leap_day <= week_end)

\* the second branch with its comparison turned round
LeapDaySecondBranch_flipped(week_start, week_end) ==
    Let(date(YearOf(week_end), 2, 29), LAMBDA leap_day :
    week_end <= leap_day)

\* the branch for a week that crosses into a leap year
LeapDaySecondBranch(week_start, week_end) ==
    Let(date(YearOf(week_end), 2, 29), LAMBDA leap_day :
    leap_day <= week_end)

_is_leap_day_week(week_start, week_end) ==
    IF isleap(YearOf(week_start))
    THEN LeapDayFirstBranch(week_start, week_end)
    ELSE IF YearOf(week_start) # YearOf(week_end) /\ isleap(YearOf(week_end))
    THEN LeapDaySecondBranch(week_start, week_end)
    ELSE FALSE

RECURSIVE DstLoop_exclusive(_, _, _)
\* the while loop stopping before the last day of the week
DstLoop_exclusive(current, week_end, tz_info) ==
    IF current < week_end
    THEN IF utcoffset_raises(current) \/ utcoffset_raises(current + 1)
         THEN Raise("Exception")
         ELSE IF utcoffset(tz_info, current) # utcoffset(tz_info, current + 1)
         THEN Return(TRUE)
         ELSE DstLoop_exclusive(current + 1, week_end, tz_info)
    ELSE Return(FALSE)

\* the while loop comparing each day of the week with the day before it
DstLoop_day_before(current, week_end, tz_info) ==
    IF \E x \in current .. week_end :
          utcoffset(tz_info, x - 1) # utcoffset(tz_info, x)
    THEN Return(TRUE)
    ELSE Return(FALSE)

RECURSIVE DstLoop(_, _, _)
\* the while loop of _is_dst_transition_week: it returns True from inside,
\* runs out (the method then returns False), or leaves by the exception of
\* an offset computation
DstLoop(current, week_end, tz_info) ==
    IF current <= week_end
    THEN IF utcoffset_raises(current) \/ utcoffset_raises(current + 1)
         THEN Raise("Exception")
         ELSE IF utcoffset(tz_info, current) # utcoffset(tz_info, current + 1)
         THEN Return(TRUE)
         ELSE DstLoop(current + 1, week_end, tz_info)
    ELSE Return(FALSE)

\* _is_dst_transition_week taking a failed offset computation for a
\* transition
_is_dst_transition_week_fault_is_transition(week_start, week_end, tz_info) ==
    IF tz_info = "None" \/ tz_info = "UTC" THEN FALSE
    ELSE Let(DstLoop(week_start, week_end, tz_info), LAMBDA r :
         IF r.raised # "None" THEN TRUE ELSE r.value)

\* tz_info is "None" or a key of the zone database; `except Exception: pass`
\* is followed by `return False`
_is_dst_transition_week(week_start, week_end, tz_info) ==
    IF tz_info = "None" \/ tz_info = "UTC" THEN FALSE
    ELSE Let(DstLoop(week_start, week_end, tz_info), LAMBDA r :
         IF r.raised # "None" THEN FALSE ELSE r.value)

\* tz_info of detect_special_week_type: None for UTC in any letter case
DstTzInfo(timezone) ==
    IF upper(timezone) = "UTC" THEN Return("None")
    ELSE validate_timezone(timezone)

\* detect_special_week_type with the year-start check ahead of the birthday
\* check
detect_special_week_type_reordered(dob, week_index, timezone, now) ==
    Guard(validate_date_of_birth(dob, now),
        Bind(DstTzInfo(timezone), LAMBDA tz_info :
        Bind(get_week_start_date(dob, week_index, now), LAMBDA week_start :
        Bind(get_week_end_date(dob, week_index, now), LAMBDA week_end :
        IF _is_year_start_week(week_start, week_end)
        THEN Return("year_start")
        ELSE Bind(_is_birthday_week(dob, week_start, week_end), LAMBDA birthday :
             IF birthday THEN Return("birthday")
             ELSE IF _is_leap_day_week(week_start, week_end)
                  THEN Return("leap_day")
             ELSE IF _is_dst_transition_week(week_start, week_end, tz_info)
                  THEN Return("dst_transition")
             ELSE Return("normal"))))))

detect_special_week_type(dob, week_index, timezone, now) ==
    Guard(validate_date_of_birth(dob, now),
        Bind(DstTzInfo(timezone), LAMBDA tz_info :
        Bind(get_week_start_date(dob, week_index, now), LAMBDA week_start :
        Bind(get_week_end_date(dob, week_index, now), LAMBDA week_end :
        Bind(_is_birthday_week(dob, week_start, week_end), LAMBDA birthday :
        IF birthday THEN Return("birthday")
        ELSE IF _is_year_start_week(week_start, week_end)
             THEN Return("year_start")
        ELSE IF _is_leap_day_week(week_start, week_end)
             THEN Return("leap_day")
        ELSE IF _is_dst_transition_week(week_start, week_end, tz_info)
             THEN Return("dst_transition")
        ELSE Return("normal"))))))

\* get_week_summary counting days_lived up to the current date
get_week_summary_days_to_today(dob, week_index, timezone, now) ==
    Guard(validate_date_of_birth(dob, now),
        Bind(get_week_start_date(dob, week_index, now), LAMBDA week_start :
        Bind(get_week_end_date(dob, week_index, now), LAMBDA week_end :
        Bind(detect_special_week_type(dob, week_index, timezone, now),
             LAMBDA week_type :
        Let(relativedelta(week_start, dob), LAMBDA age_at_week :
        Bind(calculate_current_week_index(dob, timezone, now),
             LAMBDA current_week_index :
        Return([week_index      |-> week_index,
                week_start      |-> week_start,
                week_end        |-> week_end,
                week_type       |-> week_type,
                age_years       |-> age_at_week.years,
                age_months      |-> age_at_week.months,
                age_days        |-> age_at_week.days,
                days_lived      |-> today(now) - dob,
                is_current_week |-> (week_index = current_week_index)])))))))

get_week_summary(dob, week_index, timezone, now) ==
    Guard(validate_date_of_birth(dob, now),
        Bind(get_week_start_date(dob, week_index, now), LAMBDA week_start :
        Bind(get_week_end_date(dob, week_index, now), LAMBDA week_end :
        Bind(detect_special_week_type(dob, week_index, timezone, now),
             LAMBDA week_type :
        Let(relativedelta(week_start, dob), LAMBDA age_at_week :
        Bind(calculate_current_week_index(dob, timezone, now),
             LAMBDA current_week_index :
        Return([week_index      |-> week_index,
                week_start      |-> week_start,
                week_end        |-> week_end,
                week_type       |-> week_type,
                age_years       |-> age_at_week.years,
                age_months      |-> age_at_week.months,
                age_days        |-> age_at_week.days,
                days_lived      |-> week_start - dob,
                is_current_week |-> (week_index = current_week_index)])))))))

\* round(n / d, 0) for n >= 0, d > 0, ties to even
RoundHalfEven(n, d) ==
    IF 2 * (n % d) < d THEN n \div d
    ELSE IF 2 * (n % d) > d THEN (n \div d) + 1
    ELSE IF (n \div d) % 2 = 0 THEN n \div d ELSE (n \div d) + 1

\* the progress percentage without the cap at 100
ProgressPercentage_uncapped(current_week, total_weeks) ==
    IF total_weeks > 0
    THEN RoundHalfEven(current_week * 10000, total_weeks)
    ELSE 0

\* round(min(100.0, current_week / total_weeks * 100), 2), in hundredths of
\* a percent (10000 is 100.0)
ProgressPercentage(current_week, total_weeks) ==
    IF total_weeks > 0
    THEN IF current_week >= total_weeks THEN 10000
         ELSE RoundHalfEven(current_week * 10000, total_weeks)
    ELSE 0

Max(a, b) == IF a >= b THEN a ELSE b

\* calculate_life_progress handing its own clock reading to get_week_summary
calculate_life_progress_one_reading(dob, lifespan_years, timezone, now, later) ==
    Bind(calculate_total_weeks(dob, lifespan_years, now), LAMBDA total_weeks :
    Bind(calculate_current_week_index(dob, timezone, now), LAMBDA current_week :
    Bind(get_timezone_aware_datetime(timezone, now), LAMBDA n :
    Let(relativedelta(date_of(n), dob), LAMBDA current_age :
    Bind(get_week_summary(dob, current_week, timezone, now), LAMBDA info :
    Return([date_of_birth       |-> dob,
            lifespan_years      |-> lifespan_years,
            timezone            |-> timezone,
            total_weeks         |-> total_weeks,
            current_week_index  |-> current_week,
            weeks_lived         |-> current_week + 1,
            weeks_remaining     |-> Max(0, total_weeks - current_week),
            progress_percentage |-> ProgressPercentage(current_week, total_weeks),
            current_age         |-> current_age,
            days_lived          |-> date_of(n) - dob,
            current_week_info   |-> info]))))))

\* `now` is the clock while calculate_life_progress computes its own fields,
\* `later` the clock when the nested get_week_summary runs
calculate_life_progress(dob, lifespan_years, timezone, now, later) ==
    Bind(calculate_total_weeks(dob, lifespan_years, now), LAMBDA total_weeks :
    Bind(calculate_current_week_index(dob, timezone, now), LAMBDA current_week :
    Bind(get_timezone_aware_datetime(timezone, now), LAMBDA n :
    Let(relativedelta(date_of(n), dob), LAMBDA current_age :
    Bind(get_week_summary(dob, current_week, timezone, later), LAMBDA info :
    Return([date_of_birth       |-> dob,
            lifespan_years      |-> lifespan_years,
            timezone            |-> timezone,
            total_weeks         |-> total_weeks,
            current_week_index  |-> current_week,
            weeks_lived         |-> current_week + 1,
            weeks_remaining     |-> Max(0, total_weeks - current_week),
            progress_percentage |-> ProgressPercentage(current_week, total_weeks),
            current_age         |-> current_age,
            days_lived          |-> date_of(n) - dob,
            current_week_info   |-> info]))))))

(***************************************************************************)
(* The HTTP endpoints of api/v1/week_calculation.py.  A response is its    *)
(* status code, the error-kind tag of its body ("None" for a body that is  *)
(* no error) and the fields of a successful body.                          *)
(***************************************************************************)
JSONResponse(status_code, error) == [status_code |-> status_code, error |-> error]

\* the isinstance chain over the exception classes; an exception that is
\* none of the four is answered with status 500
handle_week_calculation_error(error) ==
    IF error = "FutureDateError" THEN JSONResponse(400, "FutureDateError")
    ELSE IF error = "InvalidDateError" THEN JSONResponse(400, "InvalidDateError")
    ELSE IF error = "InvalidTimezoneError"
         THEN JSONResponse(400, "InvalidTimezoneError")
    ELSE IF error = "ValueError" THEN JSONResponse(400, "ValueError")
    ELSE JSONResponse(500, "InternalServerError")

\* the answer to a request that fails the validation of its declared
\* parameters (core/exceptions.py)
validation_exception_handler == JSONResponse(422, "Validation error")

\* "None", or the exception of the field validator of date_of_birth
validate_dob_common(v, now) ==
    IF v > today(now) THEN "ValueError"
    ELSE IF YearOf(v) < 1900 THEN "ValueError"
    ELSE "None"

\* the request body parses as a WeekCalculationRequest
WeekCalculationRequestValid(date_of_birth, lifespan_years, now) ==
    /\ IsDate(date_of_birth)
    /\ validate_dob_common(date_of_birth, now) = "None"
    /\ lifespan_years >= 1 /\ lifespan_years <= 150

\* the request body parses as a CurrentWeekRequest
CurrentWeekRequestValid(date_of_birth, now) ==
    /\ IsDate(date_of_birth)
    /\ validate_dob_common(date_of_birth, now) = "None"

TotalWeeksResponse(total_weeks) ==
    [status_code |-> 200, error |-> "None", total_weeks |-> total_weeks]

\* CurrentWeekResponse with weeks_lived counted from 0
CurrentWeekResponse_zero_based(current_week_index) ==
    [status_code |-> 200, error |-> "None",
     current_week_index |-> current_week_index,
     weeks_lived |-> current_week_index]

CurrentWeekResponse(current_week_index) ==
    [status_code |-> 200, error |-> "None",
     current_week_index |-> current_week_index,
     weeks_lived |-> current_week_index + 1]

\* try: return the response of the value; except Exception as e: return
\* handle_week_calculation_error(e)
Respond(r, response(_)) ==
    IF r.raised # "None" THEN handle_week_calculation_error(r.raised)
    ELSE response(r.value)

\* POST /weeks/total-weeks
calculate_total_weeks_endpoint(date_of_birth, lifespan_years, now) ==
    IF ~WeekCalculationRequestValid(date_of_birth, lifespan_years, now)
    THEN validation_exception_handler
    ELSE Respond(calculate_total_weeks(date_of_birth, lifespan_years, now),
                 TotalWeeksResponse)

\* POST /weeks/current-week
calculate_current_week_endpoint(date_of_birth, timezone, now) ==
    IF ~CurrentWeekRequestValid(date_of_birth, now)
    THEN validation_exception_handler
    ELSE Respond(calculate_current_week_index(date_of_birth, timezone, now),
                 CurrentWeekResponse)

\* the check of the birth date at the head of the GET endpoints
QueryDateCheck(date_of_birth, now, r) ==
    IF date_of_birth > today(now) THEN Raise("ValueError")
    ELSE IF YearOf(date_of_birth) < 1900 THEN Raise("ValueError")
    ELSE r

\* GET /weeks/total
get_total_weeks(date_of_birth, lifespan_years, now) ==
    IF ~IsDate(date_of_birth) \/ lifespan_years < 1 \/ lifespan_years > 150
    THEN validation_exception_handler
    ELSE Respond(QueryDateCheck(date_of_birth, now,
                     calculate_total_weeks(date_of_birth, lifespan_years, now)),
                 TotalWeeksResponse)

\* GET /weeks/current
get_current_week(date_of_birth, timezone, now) ==
    IF ~IsDate(date_of_birth)
    THEN validation_exception_handler
    ELSE Respond(QueryDateCheck(date_of_birth, now,
                     calculate_current_week_index(date_of_birth, timezone, now)),
                 CurrentWeekResponse)

\* the date a path string parses to: ValueError for a string that is no
\* YYYY-MM-DD date
ParsedPathDate(dob, r) == IF ~IsDate(dob) THEN Raise("ValueError") ELSE r

\* GET /weeks/current-week/{dob}
quick_current_week(dob, now) ==
    Respond(ParsedPathDate(dob, calculate_current_week_index(dob, "UTC", now)),
            CurrentWeekResponse)

\* GET /weeks/total-weeks/{dob}/{lifespan}
quick_total_weeks(dob, lifespan, now) ==
    Respond(ParsedPathDate(dob, calculate_total_weeks(dob, lifespan, now)),
            TotalWeeksResponse)

(***************************************************************************)
(* Inputs of the calls.                                                    *)
(***************************************************************************)
DobFirst == date(2019, 12, 30)

\* 2019-12-30 .. 2020-01-08, a leap-day birth date, and the dates around the
\* lower limit of validate_date_of_birth
DobChoices ==
    (DobFirst .. DobFirst + DobSpanDays)
        \cup {date(2020, 2, 29), date(1899, 12, 31), date(1900, 1, 1)}

WeekIndexChoices == (-1 .. MaxWeekIndex) \cup {43, 44, 52, 53}

TimezoneChoices ==
    {"UTC", "utc", "America/New_York", "Asia/Tokyo", "america/new_york"}

\* the birth-date argument of a call: a date, or 0 for a value that is no
\* date
DobArguments == DobChoices \cup {0}

LifespanChoices == (0 .. MaxSmallLifespan) \cup {-5, 80, 150, 151}

\* zones the server process may run in (date.today() is local to it)
ServerZones == {"UTC", "America/New_York"}

\* days on which the offset computation may fail: one before the 2020 start
\* of daylight saving time in America/New_York (2020-03-08) and one after
OffsetFaultDays == {date(2020, 3, 5), date(2020, 3, 10)}

\* 2020-01-08 00:00 UTC
ClockStart == date(2020, 1, 8) * 24

\* the clock advances by 5 hours or by 366 days
ClockSteps == {5, 24 * 366}

\* `now` is the clock reading at the start of the call; an argument the call
\* does not take is 0, or "-" for the timezone; a title left unset is "" and
\* a week_number that is None is -1; `host` is the host of the Request a
\* rate limited endpoint was given, "-" where there is none
Idle == [op |-> "idle", dob |-> 0, week_index |-> 0,
         lifespan_years |-> 0, timezone |-> "-", now |-> 0,
         user_id |-> 0, note_id |-> 0, title |-> "", week_number |-> -1,
         host |-> "-"]

NoResult == [raised |-> "-"]

\* The outcome of a call as the state records it: the exception raised, or
\* the returned value under the name of what the operation returns.
TotalWeeksOutcome(r) ==
    IF r.raised # "None" THEN r ELSE [raised |-> "None", total_weeks |-> r.value]

WeekIndexOutcome(r) ==
    IF r.raised # "None" THEN r ELSE [raised |-> "None", week_index |-> r.value]

WeekTypeOutcome(r) ==
    IF r.raised # "None" THEN r ELSE [raised |-> "None", week_type |-> r.value]

SummaryOutcome(r) ==
    IF r.raised # "None" THEN r ELSE [raised |-> "None", summary |-> r.value]

WeekStartOutcome(r) ==
    IF r.raised # "None" THEN r ELSE [raised |-> "None", week_start |-> r.value]

WeekEndOutcome(r) ==
    IF r.raised # "None" THEN r ELSE [raised |-> "None", week_end |-> r.value]

ProgressOutcome(r) ==
    IF r.raised # "None" THEN r ELSE [raised |-> "None", progress |-> r.value]

\* the outcome of a classifier applied to a week by itself
ClassifierOutcome(b) == [raised |-> "None", holds |-> b]

(***************************************************************************)
(* The rate limiter (core/rate_limiting.py): one RateLimiter for the       *)
(* process, one deque of timestamps for each client id.                    *)
(***************************************************************************)
\* the limits of user_read_rate_limit, user_write_rate_limit and
\* user_auth_rate_limit, and the window the three share
UserReadLimit == 300

UserWriteLimit == 50

UserAuthLimit == 10

WindowSeconds == 3600

\* the hosts requests come from
Hosts == {"10.0.0.1"}

\* get_client_id: the client id of a request is its host under the prefix
\* "ip"
get_client_id(host) == <<"ip", host>>

ClientIds == {get_client_id(host) : host \in Hosts}

\* the three limits the user endpoints are decorated with
RateLimits == {"user_read_rate_limit", "user_write_rate_limit",
               "user_auth_rate_limit"}

LimitOf(name) ==
    CASE name = "user_read_rate_limit"  -> UserReadLimit
      [] name = "user_write_rate_limit" -> UserWriteLimit
      [] name = "user_auth_rate_limit"  -> UserAuthLimit

\* the loop at the head of is_allowed: timestamps are taken off the left end
\* while the first one is not after now - window_seconds
RECURSIVE popleft_expired(_, _, _)
popleft_expired(client_requests, now, window_seconds) ==
    IF client_requests # << >> /\ Head(client_requests) <= now - window_seconds
    THEN popleft_expired(Tail(client_requests), now, window_seconds)
    ELSE client_requests

\* RateLimiter.is_allowed: whether the request is let through, and the
\* timestamps the limiter keeps afterwards
is_allowed(table, client_id, limit, window_seconds, now) ==
    LET client_requests == popleft_expired(table[client_id], now, window_seconds)
    IN  IF Len(client_requests) >= limit
        THEN [allowed |-> FALSE,
              clients |-> [table EXCEPT ![client_id] = client_requests]]
        ELSE [allowed |-> TRUE,
              clients |-> [table EXCEPT ![client_id] = Append(client_requests, now)]]

\* the wrapper of rate_limit: `host` is the host of the Request found among
\* the arguments of the endpoint, "-" when there is no Request among them,
\* and then the limiter is not asked
rate_limit(table, host, limit, window_seconds, now) ==
    IF host = "-"
    THEN [allowed |-> TRUE, clients |-> table]
    ELSE is_allowed(table, get_client_id(host), limit, window_seconds, now)

\* the times in `times` that lie in the window_seconds before now
WithinWindow(times, now, window_seconds) ==
    SelectSeq(times, LAMBDA t : t > now - window_seconds)

\* the number of requests let through under the limit `name` within the
\* window, over all `history` records
AdmittedWithin(history, name, now) ==
    Len(WithinWindow(history[name], now, WindowSeconds))

LimiterInit ==
    /\ clients = [client_id \in ClientIds |-> << >>]
    /\ uptime = 0
    /\ admitted = [name \in RateLimits |-> << >>]
    /\ request_given = FALSE

(***************************************************************************)
(* The state machine: the service is stateless, a call reads the clock and *)
(* yields its outcome; `call` and `result` record the last call made.      *)
(***************************************************************************)
Init ==
    /\ clock = ClockStart
    /\ server_tz \in ServerZones
    /\ offset_fault = 0
    /\ ticks = 0
    /\ call = Idle
    /\ result = NoResult
    /\ users = << >>
    /\ notes = << >>
    /\ edit_history = << >>
    /\ json_tracking = "-"
    /\ LimiterInit

\* the service with a zone database that may fail on one day
FaultInit ==
    /\ clock = ClockStart
    /\ server_tz \in ServerZones
    /\ offset_fault \in {0} \cup OffsetFaultDays
    /\ ticks = 0
    /\ call = Idle
    /\ result = NoResult
    /\ users = << >>
    /\ notes = << >>
    /\ edit_history = << >>
    /\ json_tracking = "-"
    /\ LimiterInit

\* the wall clock advances between calls
Tick ==
    /\ call.op = "idle"
    /\ ticks < MaxTicks
    /\ \E step \in ClockSteps : clock' = clock + step
    /\ ticks' = ticks + 1
    /\ UNCHANGED <<environment, limiter, database, call, result>>

\* validate_date_of_birth returns None or raises
ValidateDateOfBirth ==
    /\ call.op = "idle"
    /\ \E dob \in DobArguments :
          /\ call' = [Idle EXCEPT !.op = "validate_date_of_birth",
                                  !.now = clock, !.dob = dob]
          /\ result' = [raised |-> validate_date_of_birth(dob, clock)]
    /\ UNCHANGED <<clock, ticks, environment, limiter, database>>

GetWeekStartDate ==
    /\ call.op = "idle"
    /\ \E dob \in DobArguments, week_index \in WeekIndexChoices :
          /\ call' = [Idle EXCEPT !.op = "get_week_start_date", !.now = clock,
                                  !.dob = dob, !.week_index = week_index]
          /\ result' = WeekStartOutcome(
                get_week_start_date(dob, week_index, clock))
    /\ UNCHANGED <<clock, ticks, environment, limiter, database>>

GetWeekEndDate ==
    /\ call.op = "idle"
    /\ \E dob \in DobArguments, week_index \in WeekIndexChoices :
          /\ call' = [Idle EXCEPT !.op = "get_week_end_date", !.now = clock,
                                  !.dob = dob, !.week_index = week_index]
          /\ result' = WeekEndOutcome(
                get_week_end_date(dob, week_index, clock))
    /\ UNCHANGED <<clock, ticks, environment, limiter, database>>

CalculateTotalWeeks ==
    /\ call.op = "idle"
    /\ \E dob \in DobArguments, lifespan_years \in LifespanChoices :
          /\ call' = [Idle EXCEPT !.op = "calculate_total_weeks", !.now = clock, !.dob = dob,
                                  !.lifespan_years = lifespan_years]
          /\ result' = TotalWeeksOutcome(
                calculate_total_weeks(dob, lifespan_years, clock))
    /\ UNCHANGED <<clock, ticks, environment, limiter, database>>

CalculateCurrentWeekIndex ==
    /\ call.op = "idle"
    /\ \E dob \in DobArguments, timezone \in TimezoneChoices :
          /\ call' = [Idle EXCEPT !.op = "calculate_current_week_index", !.now = clock,
                                  !.dob = dob, !.timezone = timezone]
          /\ result' = WeekIndexOutcome(
                calculate_current_week_index(dob, timezone, clock))
    /\ UNCHANGED <<clock, ticks, environment, limiter, database>>

DetectSpecialWeekType ==
    /\ call.op = "idle"
    /\ \E dob \in DobArguments, week_index \in WeekIndexChoices,
          timezone \in TimezoneChoices :
          /\ call' = [Idle EXCEPT !.op = "detect_special_week_type", !.now = clock,
                                  !.dob = dob, !.week_index = week_index,
                                  !.timezone = timezone]
          /\ result' = WeekTypeOutcome(
                detect_special_week_type(dob, week_index, timezone, clock))
    /\ UNCHANGED <<clock, ticks, environment, limiter, database>>

GetWeekSummary ==
    /\ call.op = "idle"
    /\ \E dob \in DobArguments, week_index \in WeekIndexChoices,
          timezone \in TimezoneChoices :
          /\ call' = [Idle EXCEPT !.op = "get_week_summary", !.now = clock,
                                  !.dob = dob, !.week_index = week_index,
                                  !.timezone = timezone]
          /\ result' = SummaryOutcome(
                get_week_summary(dob, week_index, timezone, clock))
    /\ UNCHANGED <<clock, ticks, environment, limiter, database>>

\* the outcome of a request: the response
EndpointOutcome(response) == [raised |-> "None", response |-> response]

CalculateTotalWeeksEndpoint ==
    /\ call.op = "idle"
    /\ \E dob \in DobArguments, lifespan_years \in LifespanChoices :
          /\ call' = [Idle EXCEPT !.op = "calculate_total_weeks_endpoint",
                                  !.now = clock, !.dob = dob,
                                  !.lifespan_years = lifespan_years]
          /\ result' = EndpointOutcome(
                calculate_total_weeks_endpoint(dob, lifespan_years, clock))
    /\ UNCHANGED <<clock, ticks, environment, limiter, database>>

GetTotalWeeks ==
    /\ call.op = "idle"
    /\ \E dob \in DobArguments, lifespan_years \in LifespanChoices :
          /\ call' = [Idle EXCEPT !.op = "get_total_weeks",
                                  !.now = clock, !.dob = dob,
                                  !.lifespan_years = lifespan_years]
          /\ result' = EndpointOutcome(
                get_total_weeks(dob, lifespan_years, clock))
    /\ UNCHANGED <<clock, ticks, environment, limiter, database>>

QuickTotalWeeks ==
    /\ call.op = "idle"
    /\ \E dob \in DobArguments, lifespan_years \in LifespanChoices :
          /\ call' = [Idle EXCEPT !.op = "quick_total_weeks",
                                  !.now = clock, !.dob = dob,
                                  !.lifespan_years = lifespan_years]
          /\ result' = EndpointOutcome(
                quick_total_weeks(dob, lifespan_years, clock))
    /\ UNCHANGED <<clock, ticks, environment, limiter, database>>

CalculateCurrentWeekEndpoint ==
    /\ call.op = "idle"
    /\ \E dob \in DobArguments, timezone \in TimezoneChoices :
          /\ call' = [Idle EXCEPT !.op = "calculate_current_week_endpoint",
                                  !.now = clock, !.dob = dob,
                                  !.timezone = timezone]
          /\ result' = EndpointOutcome(
                calculate_current_week_endpoint(dob, timezone, clock))
    /\ UNCHANGED <<clock, ticks, environment, limiter, database>>

GetCurrentWeek ==
    /\ call.op = "idle"
    /\ \E dob \in DobArguments, timezone \in TimezoneChoices :
          /\ call' = [Idle EXCEPT !.op = "get_current_week",
                                  !.now = clock, !.dob = dob,
                                  !.timezone = timezone]
          /\ result' = EndpointOutcome(get_current_week(dob, timezone, clock))
    /\ UNCHANGED <<clock, ticks, environment, limiter, database>>

QuickCurrentWeek ==
    /\ call.op = "idle"
    /\ \E dob \in DobArguments :
          /\ call' = [Idle EXCEPT !.op = "quick_current_week",
                                  !.now = clock, !.dob = dob,
                                  !.timezone = "UTC"]
          /\ result' = EndpointOutcome(quick_current_week(dob, clock))
    /\ UNCHANGED <<clock, ticks, environment, limiter, database>>

\* a classifier applied to the week [week_start, week_end] of a birth date
\* and a week index
IsYearStartWeek ==
    /\ call.op = "idle"
    /\ \E dob \in DobChoices, week_index \in WeekIndexChoices \cap Nat :
          /\ call' = [Idle EXCEPT !.op = "_is_year_start_week", !.now = clock,
                                  !.dob = dob, !.week_index = week_index]
          /\ result' = ClassifierOutcome(
                _is_year_start_week(dob + 7 * week_index,
                                    dob + 7 * week_index + 6))
    /\ UNCHANGED <<clock, ticks, environment, limiter, database>>

IsLeapDayWeek ==
    /\ call.op = "idle"
    /\ \E dob \in DobChoices, week_index \in WeekIndexChoices \cap Nat :
          /\ call' = [Idle EXCEPT !.op = "_is_leap_day_week", !.now = clock,
                                  !.dob = dob, !.week_index = week_index]
          /\ result' = ClassifierOutcome(
                _is_leap_day_week(dob + 7 * week_index,
                                  dob + 7 * week_index + 6))
    /\ UNCHANGED <<clock, ticks, environment, limiter, database>>

\* call.timezone records tz_info: "None" or a key of the zone database
IsDstTransitionWeek ==
    /\ call.op = "idle"
    /\ \E dob \in DobChoices, week_index \in WeekIndexChoices \cap Nat,
          tz_info \in {"None"} \cup ZoneInfoKeys :
          /\ call' = [Idle EXCEPT !.op = "_is_dst_transition_week",
                                  !.now = clock, !.dob = dob,
                                  !.week_index = week_index,
                                  !.timezone = tz_info]
          /\ result' = ClassifierOutcome(
                _is_dst_transition_week(dob + 7 * week_index,
                                        dob + 7 * week_index + 6, tz_info))
    /\ UNCHANGED <<clock, ticks, environment, limiter, database>>

\* the clock may advance between the reads of calculate_life_progress and
\* those of the get_week_summary it calls
CalculateLifeProgress ==
    /\ call.op = "idle"
    /\ \E dob \in DobArguments, lifespan_years \in LifespanChoices,
          timezone \in TimezoneChoices,
          later \in {clock} \cup {clock + step : step \in ClockSteps} :
          /\ later # clock => ticks < MaxTicks
          /\ call' = [Idle EXCEPT !.op = "calculate_life_progress", !.now = clock,
                                  !.dob = dob, !.lifespan_years = lifespan_years,
                                  !.timezone = timezone]
          /\ result' = ProgressOutcome(
                calculate_life_progress(dob, lifespan_years, timezone,
                                        clock, later))
          /\ clock' = later
          /\ ticks' = IF later # clock THEN ticks + 1 ELSE ticks
    /\ UNCHANGED <<environment, limiter, database>>

\* the caller has consumed the outcome
Done ==
    /\ call.op # "idle"
    /\ call' = Idle
    /\ result' = NoResult
    /\ UNCHANGED <<clock, ticks, environment, limiter, database>>

Next ==
    \/ Tick
    \/ ValidateDateOfBirth
    \/ GetWeekStartDate
    \/ GetWeekEndDate
    \/ CalculateTotalWeeks
    \/ CalculateCurrentWeekIndex
    \/ IsYearStartWeek
    \/ IsLeapDayWeek
    \/ IsDstTransitionWeek
    \/ DetectSpecialWeekType
    \/ GetWeekSummary
    \/ CalculateLifeProgress
    \/ CalculateTotalWeeksEndpoint
    \/ GetTotalWeeks
    \/ QuickTotalWeeks
    \/ CalculateCurrentWeekEndpoint
    \/ GetCurrentWeek
    \/ QuickCurrentWeek
    \/ Done

Spec == Init /\ [][Next]_vars

FaultSpec == FaultInit /\ [][Next]_vars

(***************************************************************************)
(* services/note.py and repositories/note.py: notes of a user, optionally  *)
(* attached to a week of the user's life.  A row of the users table is the *)
(* stored date_of_birth (0 when the column is NULL); the user's id is its  *)
(* position.  A row of the notes table has the columns the operations      *)
(* below read: the text statistics, which they write and never read, are   *)
(* not among them, and edit_history is held in a variable of its own.  A   *)
(* note's id is its position.                                              *)
(* week_number is -1, note_date 0 and deleted_at 0 when the column is      *)
(* NULL.                                                                   *)
(***************************************************************************)
NoWeek == -1

\* a ValidationError or NotFoundError with its message
NoteError(e, message) == [raised |-> e, message |-> message]

MissingBirthDate == "User must have date of birth set to use week-based notes"

UserExists(user_id) == user_id \in 1 .. Len(users)

\* _validate_week_number accepting the week after the current one
_validate_week_number_next_week(date_of_birth, week_number, now) ==
    IF week_number = NoWeek THEN Return(TRUE)
    ELSE IF week_number < 0
    THEN NoteError("ValidationError", "Week number cannot be negative")
    ELSE IF date_of_birth = 0
    THEN NoteError("ValidationError", MissingBirthDate)
    ELSE Let(calculate_current_week_index(date_of_birth, "UTC", now),
         LAMBDA r :
         IF r.raised # "None"
         THEN NoteError("ValidationError", "Unable to calculate current week")
         ELSE IF week_number > r.value + 1
         THEN NoteError("ValidationError",
                        "Cannot create notes for future weeks")
         ELSE Return(TRUE))

\* _validate_week_number without the check of the birth date
_validate_week_number_any_user(date_of_birth, week_number, now) ==
    IF week_number = NoWeek THEN Return(TRUE)
    ELSE IF week_number < 0
    THEN NoteError("ValidationError", "Week number cannot be negative")
    ELSE Let(calculate_current_week_index(date_of_birth, "UTC", now),
         LAMBDA r :
         IF r.raised # "None"
         THEN NoteError("ValidationError", "Unable to calculate current week")
         ELSE IF week_number > r.value
         THEN NoteError("ValidationError",
                        "Cannot create notes for future weeks")
         ELSE Return(TRUE))

_validate_week_number(date_of_birth, week_number, now) ==
    IF week_number = NoWeek THEN Return(TRUE)
    ELSE IF week_number < 0
    THEN NoteError("ValidationError", "Week number cannot be negative")
    ELSE IF date_of_birth = 0
    THEN NoteError("ValidationError", MissingBirthDate)
    ELSE Let(calculate_current_week_index(date_of_birth, "UTC", now),
         LAMBDA r :
         IF r.raised # "None"
         THEN NoteError("ValidationError", "Unable to calculate current week")
         ELSE IF week_number > r.value
         THEN NoteError("ValidationError",
                        "Cannot create notes for future weeks")
         ELSE Return(TRUE))

\* the note_date create_note and update_note derive from a week number: the
\* first day of the week, or nothing when it cannot be computed
week_note_date(date_of_birth, week_number, now) ==
    Let(get_week_start_date(date_of_birth, week_number, now), LAMBDA r :
    IF r.raised # "None" THEN 0 ELSE r.value)

\* NoteRepository.get_by_id seeing soft-deleted rows too
get_by_id_with_deleted(table, note_id, owner_id, include_deleted) ==
    IF /\ note_id \in 1 .. Len(table)
       /\ table[note_id].owner_id = owner_id
    THEN note_id
    ELSE 0

\* NoteRepository.get_by_id: the id of the row, or 0 for None
get_by_id(table, note_id, owner_id, include_deleted) ==
    IF /\ note_id \in 1 .. Len(table)
       /\ table[note_id].owner_id = owner_id
       /\ (include_deleted \/ ~table[note_id].is_deleted)
    THEN note_id
    ELSE 0

\* NoteRepository.get_by_week: the ids of the rows
get_by_week(table, owner_id, week_number) ==
    {id \in 1 .. Len(table) :
        /\ table[id].owner_id = owner_id
        /\ table[id].week_number = week_number
        /\ ~table[id].is_deleted}

\* NoteRepository.soft_delete
soft_delete(note, now) ==
    [note EXCEPT !.is_deleted = TRUE, !.deleted_at = now]

\* NoteRepository.restore
restore(note) ==
    [note EXCEPT !.is_deleted = FALSE, !.deleted_at = 0]

\* what a mutating operation returns: the id of the note and the table after
\* the commit
Stored(table, note_id) == Return([note_id |-> note_id, notes |-> table])

create_note(user_id, title, content, week_number, now) ==
    IF ~UserExists(user_id)
    THEN NoteError("NotFoundError", "User not found")
    ELSE Bind(_validate_week_number(users[user_id], week_number, now),
         LAMBDA ok :
         Let([owner_id |-> user_id,
              title |-> title,
              content |-> content,
              week_number |-> week_number,
              note_date |->
                  IF week_number # NoWeek /\ users[user_id] # 0
                  THEN week_note_date(users[user_id], week_number, now)
                  ELSE 0,
              is_deleted |-> FALSE,
              deleted_at |-> 0],
         LAMBDA note : Stored(Append(notes, note), Len(notes) + 1)))

get_note(user_id, note_id) ==
    Let(get_by_id(notes, note_id, user_id, FALSE), LAMBDA note :
    IF note = 0 THEN NoteError("NotFoundError", "Note not found")
    ELSE Return(note))

\* title "" and week_number NoWeek are fields the update leaves unset
update_note(user_id, note_id, title, week_number, now) ==
    Let(get_by_id(notes, note_id, user_id, FALSE), LAMBDA note :
    IF note = 0 THEN NoteError("NotFoundError", "Note not found")
    ELSE IF ~UserExists(user_id)
    THEN NoteError("NotFoundError", "User not found")
    ELSE Bind(_validate_week_number(users[user_id], week_number, now),
         LAMBDA ok :
         Let([notes[note] EXCEPT
                 !.title = IF title # "" THEN title ELSE @,
                 !.week_number = IF week_number # NoWeek THEN week_number
                                 ELSE @,
                 !.note_date =
                     IF week_number # NoWeek /\ users[user_id] # 0
                     THEN Let(week_note_date(users[user_id], week_number, now),
                          LAMBDA d : IF d # 0 THEN d ELSE @)
                     ELSE @],
         LAMBDA updated : Stored([notes EXCEPT ![note] = updated], note))))

delete_note(user_id, note_id, now) ==
    Let(get_by_id(notes, note_id, user_id, FALSE), LAMBDA note :
    IF note = 0 THEN NoteError("NotFoundError", "Note not found")
    ELSE Stored([notes EXCEPT ![note] = soft_delete(notes[note], now)], note))

restore_note(user_id, note_id) ==
    Let(get_by_id(notes, note_id, user_id, TRUE), LAMBDA note :
    IF note = 0 \/ ~notes[note].is_deleted
    THEN NoteError("NotFoundError", "Deleted note not found")
    ELSE Stored([notes EXCEPT ![note] = restore(notes[note])], note))

get_week_notes(user_id, week_number, now) ==
    IF ~UserExists(user_id)
    THEN NoteError("NotFoundError", "User not found")
    ELSE IF users[user_id] = 0
    THEN NoteError("ValidationError", MissingBirthDate)
    ELSE Let(get_week_start_date(users[user_id], week_number, now), LAMBDA r :
         IF r.raised # "None"
         THEN NoteError("ValidationError", "Unable to calculate week dates")
         ELSE Return([week_number |-> week_number,
                      week_start_date |-> r.value,
                      week_end_date |-> r.value + 6,
                      notes |-> get_by_week(notes, user_id, week_number)]))

(***************************************************************************)
(* The edit history of a note: a list of entries in the JSON column        *)
(* edit_history, << >> while the column is NULL.  The service changes the  *)
(* list it loaded in place, or assigns a new list to the attribute; what   *)
(* the commit writes back depends on the mapping of the column, which is   *)
(* not part of the repository: json_tracking is "in_place" when a list     *)
(* changed in place is written back, "assigned" when only a list assigned  *)
(* anew is, and "-" where the column is not followed and stays NULL.       *)
(***************************************************************************)
\* len(note.edit_history) >= 50 and note.edit_history[-49:]
HistoryLimit == 50

HistoryKept == 49

\* str(value) of a title, a week number or a date, held as the value under
\* its type; None stays None
NoValue == [type |-> "None", text |-> "", number |-> 0]

StrOfTitle(title) == [type |-> "str", text |-> title, number |-> 0]

StrOfWeek(week_number) ==
    IF week_number = NoWeek THEN NoValue
    ELSE [type |-> "int", text |-> "", number |-> week_number]

StrOfDate(d) ==
    IF d = 0 THEN NoValue ELSE [type |-> "date", text |-> "", number |-> d]

\* the values of the model are shorter than the 100 characters after which
\* an entry cuts a value off
_create_edit_history_entry(field_name, old_value, new_value, edit_type, now) ==
    [timestamp |-> now, field_name |-> field_name, old_value |-> old_value,
     new_value |-> new_value, edit_type |-> edit_type]

\* history[-n:] of a history of at least n entries
LastEntries(history, n) == SubSeq(history, Len(history) - n + 1, Len(history))

\* the list a note was loaded with
Loaded(history) == [list |-> history, assigned |-> FALSE]

\* _add_to_edit_history cutting the history only once it is longer than the
\* limit
_add_to_edit_history_above_limit(h, entry) ==
    IF h.list = << >>
    THEN [list |-> <<entry>>, assigned |-> TRUE]
    ELSE IF Len(h.list) > HistoryLimit
    THEN [list |-> Append(LastEntries(h.list, HistoryKept), entry),
          assigned |-> TRUE]
    ELSE [list |-> Append(h.list, entry), assigned |-> h.assigned]

\* _add_to_edit_history: the list of the note afterwards, and whether the
\* attribute was assigned a new list on the way
_add_to_edit_history(h, entry) ==
    IF h.list = << >>
    THEN [list |-> <<entry>>, assigned |-> TRUE]
    ELSE IF Len(h.list) >= HistoryLimit
    THEN [list |-> Append(LastEntries(h.list, HistoryKept), entry),
          assigned |-> TRUE]
    ELSE [list |-> Append(h.list, entry), assigned |-> h.assigned]

\* the entry is added when the field changes
AddIfChanged(h, changed, entry) ==
    IF changed THEN _add_to_edit_history(h, entry) ELSE h

\* the column after the commit
Written(stored, h) ==
    IF json_tracking = "-" THEN stored
    ELSE IF json_tracking = "in_place" \/ h.assigned THEN h.list
    ELSE stored

\* create_note: the creation is the first entry
create_note_history(title, now) ==
    _add_to_edit_history(Loaded(<< >>),
        _create_edit_history_entry("note", NoValue, StrOfTitle(title),
                                   "create", now))

\* update_note: one entry for each of title, week_number and note_date that
\* the update changes, in the order of the update
update_note_history(note, history, title, week_number, date_of_birth, now) ==
    Let(IF week_number # NoWeek /\ date_of_birth # 0
        THEN week_note_date(date_of_birth, week_number, now)
        ELSE 0,
    LAMBDA d :
    AddIfChanged(
        AddIfChanged(
            AddIfChanged(Loaded(history),
                title # "" /\ title # note.title,
                _create_edit_history_entry("title", StrOfTitle(note.title),
                    StrOfTitle(title), "update", now)),
            week_number # NoWeek /\ week_number # note.week_number,
            _create_edit_history_entry("week_number",
                StrOfWeek(note.week_number), StrOfWeek(week_number),
                "update", now)),
        d # 0 /\ d # note.note_date,
        _create_edit_history_entry("note_date", StrOfDate(note.note_date),
            StrOfDate(d), "update", now)))

delete_note_history(note, history, now) ==
    _add_to_edit_history(Loaded(history),
        _create_edit_history_entry("note", StrOfTitle(note.title), NoValue,
                                   "delete", now))

restore_note_history(note, history, now) ==
    _add_to_edit_history(Loaded(history),
        _create_edit_history_entry("note", NoValue, StrOfTitle(note.title),
                                   "restore", now))

\* the entries of a history made since the clock started
RecentEntries(history) ==
    Len(SelectSeq(history, LAMBDA entry : entry.timestamp >= ClockStart))

(***************************************************************************)
(* Inputs of the note operations.                                          *)
(***************************************************************************)
\* at most MaxNotes notes are created
MaxNotes == 1

\* notes whose history is followed are written until MaxEdits entries were
\* made since the clock started
MaxEdits == 4

RECURSIVE RecentEdits(_)
RecentEdits(histories) ==
    IF histories = << >> THEN 0
    ELSE RecentEntries(Head(histories)) + RecentEdits(Tail(histories))

Editable == RecentEdits(edit_history) < MaxEdits

\* the stored birth date of user 1: none, 2019-12-30, 2020-01-07 (each
\* accepted by the user schemas on 2020-01-07, the server's date at
\* ClockStart in America/New_York), or a date before 1900
UserDobChoices == {0, date(2019, 12, 30), date(2020, 1, 7), date(1899, 12, 31)}

\* user 1 exists, user 2 does not
UserIds == {1, 2}

\* the week_number of a NoteCreate or NoteUpdate, which the schemas keep from
\* being negative: None, or one of the weeks 0 .. 2
WeekNumberChoices == {NoWeek, 0, 1, 2}

\* the week_number in the path of a request for the notes of a week: any
\* integer
WeekPathChoices == {-2, 0, 1, 2}

\* the NoteResponse of a stored note
NoteResponse(table, note_id) ==
    [id |-> note_id,
     title |-> table[note_id].title,
     content |-> table[note_id].content,
     week_number |-> table[note_id].week_number,
     note_date |-> table[note_id].note_date,
     is_deleted |-> table[note_id].is_deleted,
     deleted_at |-> table[note_id].deleted_at]

\* the outcome of a call that returns a note
NoteOutcome(r, table) ==
    IF r.raised # "None" THEN r
    ELSE [raised |-> "None", note |-> NoteResponse(table, r.value.note_id)]

\* the notes table after a call
Committed(r) == IF r.raised # "None" THEN notes ELSE r.value.notes

(***************************************************************************)
(* schemas/user.py and services/user.py: the birth date of a stored user   *)
(* changes through update_user and find_or_create_user_by_name.            *)
(***************************************************************************)
\* the field validator of date_of_birth in UserUpdate and UserByNameCreate:
\* "None", or the exception it raises
validate_user_date_of_birth(v, now) ==
    IF v = 0 THEN "None"
    ELSE IF v > today(now) THEN "ValueError"
    ELSE IF v < date(YearOf(today(now)) - 150, MonthOf(today(now)),
                     DayOf(today(now)))
    THEN "ValueError"
    ELSE "None"

\* update_user with a UserUpdate that sets date_of_birth (0: to None): the
\* users table after the commit
update_user(user_id, date_of_birth, now) ==
    Guard(validate_user_date_of_birth(date_of_birth, now),
        IF ~UserExists(user_id)
        THEN NoteError("NotFoundError", "User not found")
        ELSE Return([users EXCEPT ![user_id] = date_of_birth]))

\* find_or_create_user_by_name with the name of the stored user user_id and
\* a date_of_birth (0: None)
find_or_create_user_by_name(user_id, date_of_birth, now) ==
    Guard(validate_user_date_of_birth(date_of_birth, now),
        IF date_of_birth # 0 /\ users[user_id] # date_of_birth
        THEN Return([users EXCEPT ![user_id] = date_of_birth])
        ELSE Return(users))

\* the date_of_birth of a request: none, a stored user's choice, or
\* 2020-01-08
UserDobArguments == UserDobChoices \cup {date(2020, 1, 8)}

\* the outcome of a call that returns a user
UserOutcome(r, user_id) ==
    IF r.raised # "None" THEN r
    ELSE [raised |-> "None", date_of_birth |-> r.value[user_id]]

NoteInit ==
    /\ clock = ClockStart
    /\ server_tz \in ServerZones
    /\ offset_fault = 0
    /\ ticks = 0
    /\ call = Idle
    /\ result = NoResult
    /\ \E date_of_birth \in UserDobChoices : users = <<date_of_birth>>
    /\ notes = << >>
    /\ edit_history = << >>
    /\ json_tracking = "-"
    /\ LimiterInit

CreateNote ==
    /\ call.op = "idle"
    /\ Len(notes) < MaxNotes
    /\ \E user_id \in UserIds, week_number \in WeekNumberChoices :
          LET r == create_note(user_id, "a", "x", week_number, clock) IN
          /\ call' = [Idle EXCEPT !.op = "create_note", !.now = clock,
                                  !.user_id = user_id, !.title = "a",
                                  !.week_number = week_number]
          /\ notes' = Committed(r)
          /\ edit_history' =
                IF r.raised # "None" THEN edit_history
                ELSE Append(edit_history,
                            Written(<< >>, create_note_history("a", clock)))
          /\ result' = NoteOutcome(r, Committed(r))
    /\ UNCHANGED <<clock, ticks, environment, limiter, users>>

GetNote ==
    /\ call.op = "idle"
    /\ \E user_id \in UserIds, note_id \in 1 .. MaxNotes :
          LET r == get_note(user_id, note_id) IN
          /\ call' = [Idle EXCEPT !.op = "get_note", !.now = clock,
                                  !.user_id = user_id, !.note_id = note_id]
          /\ result' = IF r.raised # "None" THEN r
                       ELSE [raised |-> "None",
                             note |-> NoteResponse(notes, r.value)]
    /\ UNCHANGED <<clock, ticks, environment, limiter, database>>

UpdateNote ==
    /\ call.op = "idle"
    /\ \E user_id \in UserIds, note_id \in 1 .. MaxNotes,
          title \in {"", "b"}, week_number \in WeekNumberChoices :
          LET r == update_note(user_id, note_id, title, week_number, clock) IN
          /\ Editable
          /\ call' = [Idle EXCEPT !.op = "update_note", !.now = clock,
                                  !.user_id = user_id, !.note_id = note_id,
                                  !.title = title,
                                  !.week_number = week_number]
          /\ notes' = Committed(r)
          /\ edit_history' =
                IF r.raised # "None" THEN edit_history
                ELSE [edit_history EXCEPT ![note_id] =
                        Written(@, update_note_history(notes[note_id], @,
                            title, week_number, users[user_id], clock))]
          /\ result' = NoteOutcome(r, Committed(r))
    /\ UNCHANGED <<clock, ticks, environment, limiter, users>>

DeleteNote ==
    /\ call.op = "idle"
    /\ \E user_id \in UserIds, note_id \in 1 .. MaxNotes :
          LET r == delete_note(user_id, note_id, clock) IN
          /\ Editable
          /\ call' = [Idle EXCEPT !.op = "delete_note", !.now = clock,
                                  !.user_id = user_id, !.note_id = note_id]
          /\ notes' = Committed(r)
          /\ edit_history' =
                IF r.raised # "None" THEN edit_history
                ELSE [edit_history EXCEPT ![note_id] =
                        Written(@, delete_note_history(notes[note_id], @,
                                                       clock))]
          /\ result' = IF r.raised # "None" THEN r ELSE [raised |-> "None"]
    /\ UNCHANGED <<clock, ticks, environment, limiter, users>>

RestoreNote ==
    /\ call.op = "idle"
    /\ \E user_id \in UserIds, note_id \in 1 .. MaxNotes :
          LET r == restore_note(user_id, note_id) IN
          /\ Editable
          /\ call' = [Idle EXCEPT !.op = "restore_note", !.now = clock,
                                  !.user_id = user_id, !.note_id = note_id]
          /\ notes' = Committed(r)
          /\ edit_history' =
                IF r.raised # "None" THEN edit_history
                ELSE [edit_history EXCEPT ![note_id] =
                        Written(@, restore_note_history(notes[note_id], @,
                                                        clock))]
          /\ result' = NoteOutcome(r, Committed(r))
    /\ UNCHANGED <<clock, ticks, environment, limiter, users>>

GetWeekNotes ==
    /\ call.op = "idle"
    /\ \E user_id \in UserIds, week_number \in WeekPathChoices :
          /\ call' = [Idle EXCEPT !.op = "get_week_notes", !.now = clock,
                                  !.user_id = user_id,
                                  !.week_number = week_number]
          /\ result' = Let(get_week_notes(user_id, week_number, clock),
                LAMBDA r : IF r.raised # "None" THEN r
                           ELSE [raised |-> "None", week_notes |-> r.value])
    /\ UNCHANGED <<clock, ticks, environment, limiter, database>>

UpdateUser ==
    /\ call.op = "idle"
    /\ \E user_id \in UserIds, date_of_birth \in UserDobArguments :
          LET r == update_user(user_id, date_of_birth, clock) IN
          /\ call' = [Idle EXCEPT !.op = "update_user", !.now = clock,
                                  !.user_id = user_id, !.dob = date_of_birth]
          /\ users' = IF r.raised # "None" THEN users ELSE r.value
          /\ result' = UserOutcome(r, user_id)
    /\ UNCHANGED <<clock, ticks, environment, limiter, notes, edit_history>>

FindOrCreateUserByName ==
    /\ call.op = "idle"
    /\ \E user_id \in 1 .. Len(users), date_of_birth \in UserDobArguments :
          LET r == find_or_create_user_by_name(user_id, date_of_birth, clock)
          IN
          /\ call' = [Idle EXCEPT !.op = "find_or_create_user_by_name",
                                  !.now = clock,
                                  !.user_id = user_id, !.dob = date_of_birth]
          /\ users' = IF r.raised # "None" THEN users ELSE r.value
          /\ result' = UserOutcome(r, user_id)
    /\ UNCHANGED <<clock, ticks, environment, limiter, notes, edit_history>>

NoteNext ==
    \/ Tick
    \/ CreateNote
    \/ GetNote
    \/ UpdateNote
    \/ DeleteNote
    \/ RestoreNote
    \/ GetWeekNotes
    \/ Done

NoteSpec == NoteInit /\ [][NoteNext]_vars

\* notes are written while the birth date of their owner changes
UserNoteNext ==
    \/ Tick
    \/ UpdateUser
    \/ FindOrCreateUserByName
    \/ CreateNote
    \/ UpdateNote
    \/ Done

UserNoteSpec == NoteInit /\ [][UserNoteNext]_vars

(***************************************************************************)
(* The edit history followed.  Where a list changed in place is written    *)
(* back, the first state has a note with a history three entries short of  *)
(* the limit: the note was created in the hour before the clock starts     *)
(* with title "a" and no week, and its week was then set to 0, 1, 0, ...   *)
(* in turn, each update adding an entry for week_number and one for        *)
(* note_date.  Where only an assigned list is written back, no history     *)
(* grows beyond the entry of the creation, and the first state has no      *)
(* note.                                                                   *)
(***************************************************************************)
HistoryOwnerDob == date(2019, 12, 30)

\* the week the k-th update of the note set
EarlierWeek(k) == (k - 1) % 2

EarlierEntry(i) ==
    IF i = 1
    THEN _create_edit_history_entry("note", NoValue, StrOfTitle("a"),
                                    "create", ClockStart - 1)
    ELSE Let(i \div 2, LAMBDA k :
         IF i % 2 = 0
         THEN _create_edit_history_entry("week_number",
                  StrOfWeek(IF k = 1 THEN NoWeek ELSE EarlierWeek(k - 1)),
                  StrOfWeek(EarlierWeek(k)), "update", ClockStart - 1)
         ELSE _create_edit_history_entry("note_date",
                  StrOfDate(IF k = 1 THEN 0
                            ELSE week_note_date(HistoryOwnerDob,
                                     EarlierWeek(k - 1), ClockStart - 1)),
                  StrOfDate(week_note_date(HistoryOwnerDob, EarlierWeek(k),
                                           ClockStart - 1)),
                  "update", ClockStart - 1))

EarlierHistory == [i \in 1 .. (HistoryLimit - 3) |-> EarlierEntry(i)]

EarlierNote ==
    Let(EarlierWeek((HistoryLimit - 3) \div 2), LAMBDA week_number :
        [owner_id |-> 1, title |-> "a", content |-> "x",
         week_number |-> week_number,
         note_date |-> week_note_date(HistoryOwnerDob, week_number,
                                      ClockStart - 1),
         is_deleted |-> FALSE, deleted_at |-> 0])

HistoryInit ==
    /\ clock = ClockStart
    /\ server_tz \in ServerZones
    /\ offset_fault = 0
    /\ ticks = 0
    /\ call = Idle
    /\ result = NoResult
    /\ users = <<HistoryOwnerDob>>
    /\ json_tracking \in {"in_place", "assigned"}
    /\ notes = IF json_tracking = "in_place" THEN <<EarlierNote>> ELSE << >>
    /\ edit_history = IF json_tracking = "in_place" THEN <<EarlierHistory>>
                      ELSE << >>
    /\ LimiterInit

\* the calls are made within the hour the clock starts in, an hour after the
\* earlier entries
HistoryNext ==
    \/ CreateNote
    \/ UpdateNote
    \/ DeleteNote
    \/ RestoreNote
    \/ Done

HistorySpec == HistoryInit /\ [][HistoryNext]_vars

(***************************************************************************)
(* A caller that makes the same call twice: `first` is the outcome of the  *)
(* call at the clock reading call.now, `second` that of the call with the  *)
(* same arguments at the clock reading the step ends with.                 *)
(***************************************************************************)
TwoOutcomes(first, second) ==
    [raised |-> "None", first |-> first, second |-> second]

\* the clock readings of a second read that follows a read at the clock
LaterReadings == {clock} \cup {clock + step : step \in ClockSteps}

CalculateTotalWeeksTwice ==
    /\ call.op = "idle"
    /\ \E dob \in DobArguments, lifespan_years \in LifespanChoices,
          later \in LaterReadings :
          /\ later # clock => ticks < MaxTicks
          /\ call' = [Idle EXCEPT !.op = "calculate_total_weeks_twice",
                                  !.now = clock, !.dob = dob,
                                  !.lifespan_years = lifespan_years]
          /\ result' = TwoOutcomes(
                TotalWeeksOutcome(
                    calculate_total_weeks(dob, lifespan_years, clock)),
                TotalWeeksOutcome(
                    calculate_total_weeks(dob, lifespan_years, later)))
          /\ clock' = later
          /\ ticks' = IF later # clock THEN ticks + 1 ELSE ticks
    /\ UNCHANGED <<environment, limiter, database>>

GetWeekSummaryTwice ==
    /\ call.op = "idle"
    /\ \E dob \in DobArguments, week_index \in WeekIndexChoices,
          timezone \in TimezoneChoices, later \in LaterReadings :
          /\ later # clock => ticks < MaxTicks
          /\ call' = [Idle EXCEPT !.op = "get_week_summary_twice",
                                  !.now = clock, !.dob = dob,
                                  !.week_index = week_index,
                                  !.timezone = timezone]
          /\ result' = TwoOutcomes(
                SummaryOutcome(
                    get_week_summary(dob, week_index, timezone, clock)),
                SummaryOutcome(
                    get_week_summary(dob, week_index, timezone, later)))
          /\ clock' = later
          /\ ticks' = IF later # clock THEN ticks + 1 ELSE ticks
    /\ UNCHANGED <<environment, limiter, database>>

RepeatNext ==
    \/ Tick
    \/ CalculateTotalWeeksTwice
    \/ GetWeekSummaryTwice
    \/ Done

RepeatSpec == Init /\ [][RepeatNext]_vars

(***************************************************************************)
(* Notions the properties are stated in.                                   *)
(***************************************************************************)
\* the 7-day span of the week the recorded call is about
WeekStart == call.dob + 7 * call.week_index
WeekEnd   == WeekStart + 6

\* the birth-date invariant: a date, year >= 1900 and not after today
ValidBirthDate(dob, now) ==
    IsDate(dob) /\ YearOf(dob) >= 1900 /\ dob <= today(now)

\* "UTC" in any letter case, or a name of the zone database
ValidTimezone(timezone) == upper(timezone) = "UTC" \/ timezone \in ZoneInfoKeys

\* the zone a valid timezone string denotes
ZoneOf(timezone) == IF upper(timezone) = "UTC" THEN "UTC" ELSE timezone

\* what detect_special_week_type hands to the DST classifier
TzInfoOf(timezone) == IF upper(timezone) = "UTC" THEN "None" ELSE timezone

\* the span [from, to] contains a day with the given month and day
ContainsMonthDay(from, to, m, d) ==
    \E x \in from..to : MonthOf(x) = m /\ DayOf(x) = d

ContainsAnniversary(dob, from, to) ==
    ContainsMonthDay(from, to, MonthOf(dob), DayOf(dob))

\* a call about one week of a valid birth date in a valid timezone
WeekCall(op) ==
    /\ call.op = op
    /\ ValidBirthDate(call.dob, call.now)
    /\ call.week_index >= 0
    /\ ValidTimezone(call.timezone)

(***************************************************************************)
(* C1: for every valid birth date and week index >= 0,                     *)
(* detect_special_week_type returns Birthday exactly when the week         *)
(* [weekStart, weekEnd] contains a date with the birth date's month and    *)
(* day, weeks that straddle a year boundary included.                      *)
(***************************************************************************)
C1_BirthdayExactlyWhenAnniversary ==
    WeekCall("detect_special_week_type") =>
        /\ result.raised = "None"
        /\ (result.week_type = "birthday")
              <=> ContainsAnniversary(call.dob, WeekStart, WeekEnd)

(***************************************************************************)
(* C2: a week that contains both a birthday anniversary and a January 1 is *)
(* classified Birthday, never YearStart.                                   *)
(***************************************************************************)
C2_BirthdayBeatsYearStart ==
    (/\ WeekCall("detect_special_week_type")
     /\ ContainsAnniversary(call.dob, WeekStart, WeekEnd)
     /\ ContainsMonthDay(WeekStart, WeekEnd, 1, 1))
        => (result.raised = "None" /\ result.week_type = "birthday")

(***************************************************************************)
(* C3: detect_special_week_type returns the type of the first classifier   *)
(* that holds in the order Birthday, YearStart, LeapDay, DstTransition,    *)
(* and Normal exactly when none holds.                                     *)
(***************************************************************************)
C3_FirstClassifierWins ==
    (call.op = "detect_special_week_type" /\ result.raised = "None") =>
        LET bw == _is_birthday_week(call.dob, WeekStart, WeekEnd)
            b == bw.raised = "None" /\ bw.value
            y == _is_year_start_week(WeekStart, WeekEnd)
            l == _is_leap_day_week(WeekStart, WeekEnd)
            d == _is_dst_transition_week(WeekStart, WeekEnd,
                                         TzInfoOf(call.timezone))
        IN  /\ (result.week_type = "birthday")       <=> b
            /\ (result.week_type = "year_start")     <=> (~b /\ y)
            /\ (result.week_type = "leap_day")       <=> (~b /\ ~y /\ l)
            /\ (result.week_type = "dst_transition") <=> (~b /\ ~y /\ ~l /\ d)
            /\ (result.week_type = "normal")         <=> (~b /\ ~y /\ ~l /\ ~d)

\* a Birthday result for a week that is a year-start week as well
C3_Witness ==
    /\ call.op = "detect_special_week_type"
    /\ result.raised = "None"
    /\ result.week_type = "birthday"
    /\ _is_year_start_week(WeekStart, WeekEnd)

(***************************************************************************)
(* C4: for every valid birth date (a February 29 one included), week index *)
(* >= 0 and valid timezone, detect_special_week_type returns one of the    *)
(* five week types without raising, and so do get_week_summary and         *)
(* calculate_life_progress.                                                *)
(***************************************************************************)
C4_ClassificationNeverRaises ==
    /\ WeekCall("detect_special_week_type") =>
          (result.raised = "None" /\ result.week_type \in WeekTypes)
    /\ WeekCall("get_week_summary") =>
          (result.raised = "None" /\ result.summary.week_type \in WeekTypes)
    /\ (/\ call.op = "calculate_life_progress"
        /\ ValidBirthDate(call.dob, call.now)
        /\ ValidTimezone(call.timezone)
        /\ call.lifespan_years \in 1..150)
          => result.raised = "None"

(***************************************************************************)
(* C5: for every valid birth date and lifespan in 1..150,                  *)
(* calculate_total_weeks returns floor(D / 7), D being the days from the   *)
(* birth date to the same month and day lifespan calendar years later      *)
(* (February 28 for a February 29 birth date and a non-leap target year).  *)
(***************************************************************************)
SameDayYearsLater(dob, n) ==
    LET y == YearOf(dob) + n
    IN  IF MonthOf(dob) = 2 /\ DayOf(dob) = 29 /\ ~isleap(y)
        THEN date(y, 2, 28)
        ELSE date(y, MonthOf(dob), DayOf(dob))

C5_TotalWeeksIsFloorOfCalendarSpan ==
    (/\ call.op = "calculate_total_weeks"
     /\ ValidBirthDate(call.dob, call.now)
     /\ call.lifespan_years \in 1..150)
        => /\ result.raised = "None"
           /\ LET D == SameDayYearsLater(call.dob, call.lifespan_years) - call.dob
              IN  /\ 7 * result.total_weeks <= D
                  /\ D < 7 * (result.total_weeks + 1)

\* a total for a February 29 birth date whose target year is not a leap
\* year, the span not being a whole number of weeks
C5_Witness ==
    /\ call.op = "calculate_total_weeks"
    /\ result.raised = "None"
    /\ MonthOf(call.dob) = 2 /\ DayOf(call.dob) = 29
    /\ ~isleap(YearOf(call.dob) + call.lifespan_years)
    /\ (SameDayYearsLater(call.dob, call.lifespan_years) - call.dob) % 7 # 0

(***************************************************************************)
(* C6: for every valid birth date and clock value,                         *)
(* calculate_current_week_index returns floor((currentDate - birthDate)    *)
(* .days / 7), currentDate being the civil date of now in the requested    *)
(* timezone, and never a negative number.                                  *)
(***************************************************************************)
C6_CurrentWeekIsFloorOfDaysLived ==
    (/\ call.op = "calculate_current_week_index"
     /\ ValidBirthDate(call.dob, call.now)
     /\ ValidTimezone(call.timezone))
        => /\ result.raised = "None"
           /\ LET currentDate ==
                      date_of(datetime_now(ZoneOf(call.timezone), call.now))
                  days == currentDate - call.dob
              IN  /\ 7 * result.week_index <= days
                  /\ days < 7 * (result.week_index + 1)
           /\ result.week_index >= 0

(***************************************************************************)
(* C7: every calculate_life_progress result has 0 <= progress_percentage   *)
(* <= 100 and weeks_remaining >= 0; when currentWeek > totalWeeks the      *)
(* percentage is exactly 100.0 and weeks_remaining is 0; when currentWeek  *)
(* <= totalWeeks, weeks_remaining is totalWeeks - currentWeek.             *)
(***************************************************************************)
C7_ProgressIsCapped ==
    (call.op = "calculate_life_progress" /\ result.raised = "None") =>
        LET r  == result.progress
            cw == calculate_current_week_index(call.dob, call.timezone,
                                               call.now).value
            tw == calculate_total_weeks(call.dob, call.lifespan_years,
                                        call.now).value
        IN  /\ r.current_week_index = cw
            /\ r.total_weeks = tw
            /\ 0 <= r.progress_percentage /\ r.progress_percentage <= 10000
            /\ r.weeks_remaining >= 0
            /\ cw > tw => (r.progress_percentage = 10000 /\ r.weeks_remaining = 0)
            /\ cw <= tw => r.weeks_remaining = tw - cw

\* a result for a person who has outlived the configured lifespan
C7_Witness ==
    /\ call.op = "calculate_life_progress"
    /\ result.raised = "None"
    /\ result.progress.current_week_index > result.progress.total_weeks

(***************************************************************************)
(* C8: the year-start classifier is true exactly when the week contains a  *)
(* January 1; weekStart and weekEnd lie in different years only when the   *)
(* week contains January 1 of weekEnd.year.                                *)
(***************************************************************************)
C8_YearStartExactlyWhenJan1 ==
    call.op = "_is_year_start_week" =>
        /\ result.holds <=> ContainsMonthDay(WeekStart, WeekEnd, 1, 1)
        /\ YearOf(WeekStart) # YearOf(WeekEnd) =>
              /\ result.holds
              /\ WeekStart <= date(YearOf(WeekEnd), 1, 1)
              /\ date(YearOf(WeekEnd), 1, 1) <= WeekEnd

\* the classifier holds of a week that starts in December
C8_Witness ==
    /\ call.op = "_is_year_start_week"
    /\ result.holds
    /\ YearOf(WeekStart) # YearOf(WeekEnd)

(***************************************************************************)
(* C9: the leap-day classifier is true exactly when the week contains a    *)
(* February 29; its second branch (the week starts in a non-leap year and  *)
(* ends in a leap year) never yields true for a 7-day week.                *)
(***************************************************************************)
SecondBranchTaken ==
    /\ ~isleap(YearOf(WeekStart))
    /\ YearOf(WeekStart) # YearOf(WeekEnd)
    /\ isleap(YearOf(WeekEnd))

C9_LeapDayExactlyWhenFeb29 ==
    call.op = "_is_leap_day_week" =>
        /\ result.holds <=> ContainsMonthDay(WeekStart, WeekEnd, 2, 29)
        /\ SecondBranchTaken => ~result.holds

\* the classifier applied to a week that takes its second branch
C9_Witness ==
    /\ call.op = "_is_leap_day_week"
    /\ SecondBranchTaken
    /\ ~result.holds

(***************************************************************************)
(* C10, as stated: the DST classifier is true exactly when the UTC offset  *)
(* at local midnight differs between two consecutive days that both lie    *)
(* within [weekStart, weekEnd]; it is false for UTC in any letter case and *)
(* for a zone whose offset never changes.                                  *)
(***************************************************************************)
ConstantOffsetZones == {"UTC", "Asia/Tokyo"}

\* the zone the tz_info of a classifier call stands for
ZoneOfTzInfo(tz_info) == IF tz_info = "None" THEN "UTC" ELSE tz_info

\* the offset at local midnight differs between day x and day x + 1
OffsetChangesAfter(zone, x) == utcoffset(zone, x) # utcoffset(zone, x + 1)

\* detect_special_week_type never answers DstTransition for UTC in any
\* letter case or for a zone of constant offset, and neither does the
\* classifier
NoDstWithoutOffsetChange ==
    /\ (/\ call.op = "detect_special_week_type"
        /\ result.raised = "None"
        /\ ValidTimezone(call.timezone)
        /\ ZoneOf(call.timezone) \in ConstantOffsetZones)
          => result.week_type # "dst_transition"
    /\ (/\ call.op = "_is_dst_transition_week"
        /\ ZoneOfTzInfo(call.timezone) \in ConstantOffsetZones)
          => ~result.holds

C10_DstExactlyWhenOffsetChangesInsideWeek ==
    /\ call.op = "_is_dst_transition_week" =>
          (result.holds <=>
              \E x \in WeekStart..(WeekEnd - 1) :
                  OffsetChangesAfter(ZoneOfTzInfo(call.timezone), x))
    /\ NoDstWithoutOffsetChange

(***************************************************************************)
(* C10, amended: the DST classifier is true exactly when the UTC offset at *)
(* local midnight differs between some day of [weekStart, weekEnd] and the *)
(* day after it, which for weekEnd is the first day of the next week; it   *)
(* is false for UTC in any letter case and for a zone whose offset never   *)
(* changes.                                                                *)
(***************************************************************************)
C10_DstExactlyWhenOffsetChangesAfterADayOfWeek ==
    /\ call.op = "_is_dst_transition_week" =>
          (result.holds <=>
              \E x \in WeekStart..WeekEnd :
                  OffsetChangesAfter(ZoneOfTzInfo(call.timezone), x))
    /\ NoDstWithoutOffsetChange

\* the classifier holds of a week whose only offset change is the one
\* between weekEnd and the day after
C10_Witness ==
    /\ call.op = "_is_dst_transition_week"
    /\ result.holds
    /\ OffsetChangesAfter(ZoneOfTzInfo(call.timezone), WeekEnd)

(***************************************************************************)
(* C11: for every valid birth date and week index >= 0, get_week_end_date  *)
(* minus get_week_start_date is exactly 6 days, and week 0 starts on the   *)
(* birth date.                                                             *)
(***************************************************************************)
C11_WeekSpansSixDays ==
    /\ (/\ call.op = "get_week_end_date"
        /\ ValidBirthDate(call.dob, call.now)
        /\ call.week_index >= 0)
          => /\ result.raised = "None"
             /\ LET start == get_week_start_date(call.dob, call.week_index,
                                                 call.now)
                IN  /\ start.raised = "None"
                    /\ result.week_end - start.value = 6
    /\ (/\ call.op = "get_week_start_date"
        /\ ValidBirthDate(call.dob, call.now)
        /\ call.week_index = 0)
          => (result.raised = "None" /\ result.week_start = call.dob)

\* the end of a week that starts in one month and ends in the next
C11_Witness ==
    /\ call.op = "get_week_end_date"
    /\ result.raised = "None"
    /\ call.week_index > 0
    /\ MonthOf(result.week_end) # MonthOf(WeekStart)

(***************************************************************************)
(* C12: for every valid birth date and n >= 0, week n + 1 starts 7 days    *)
(* after week n starts, which is the day after week n ends: the weeks tile *)
(* the timeline with no gap and no overlap.                                *)
(***************************************************************************)
C12_WeeksTileTheTimeline ==
    (/\ call.op = "get_week_start_date"
     /\ ValidBirthDate(call.dob, call.now)
     /\ call.week_index >= 1)
        => /\ result.raised = "None"
           /\ LET n == call.week_index - 1
                  start_n == get_week_start_date(call.dob, n, call.now)
                  end_n   == get_week_end_date(call.dob, n, call.now)
              IN  /\ start_n.raised = "None" /\ end_n.raised = "None"
                  /\ result.week_start = start_n.value + 7
                  /\ result.week_start = end_n.value + 1

\* the start of the first week of the second year of life
C12_Witness ==
    /\ call.op = "get_week_start_date"
    /\ result.raised = "None"
    /\ call.week_index >= 52

(***************************************************************************)
(* C13: validate_date_of_birth accepts exactly the dates with year >= 1900 *)
(* that are not after today: 1900-01-01 and today are accepted, 1899-12-31 *)
(* fails with InvalidDateError, today + 1 day with FutureDateError, a      *)
(* value that is no date with InvalidDateError; every week operation that  *)
(* takes a birth date fails the same way.                                  *)
(***************************************************************************)
\* "None", or the error the birth date of a call is to be refused with
BirthDateError(dob, now) ==
    IF ~IsDate(dob) THEN "InvalidDateError"
    ELSE IF YearOf(dob) < 1900 THEN "InvalidDateError"
    ELSE IF dob >= today(now) + 1 THEN "FutureDateError"
    ELSE "None"

BirthDateOperations ==
    {"validate_date_of_birth", "calculate_total_weeks",
     "calculate_current_week_index", "get_week_start_date",
     "get_week_end_date", "detect_special_week_type", "get_week_summary",
     "calculate_life_progress"}

C13_BirthDateValidation ==
    call.op \in BirthDateOperations =>
        /\ call.op = "validate_date_of_birth" =>
              /\ result.raised = BirthDateError(call.dob, call.now)
              /\ call.dob = date(1900, 1, 1) => result.raised = "None"
              /\ call.dob = today(call.now) => result.raised = "None"
              /\ call.dob = date(1899, 12, 31) =>
                    result.raised = "InvalidDateError"
              /\ call.dob = today(call.now) + 1 =>
                    result.raised = "FutureDateError"
              /\ ~IsDate(call.dob) => result.raised = "InvalidDateError"
        /\ BirthDateError(call.dob, call.now) # "None" =>
              result.raised = BirthDateError(call.dob, call.now)
        /\ BirthDateError(call.dob, call.now) = "None" =>
              result.raised \notin {"InvalidDateError", "FutureDateError"}

\* the date of today is accepted
C13_Witness ==
    /\ call.op = "validate_date_of_birth"
    /\ call.dob = today(call.now)
    /\ result.raised = "None"

(***************************************************************************)
(* C14: for every valid birth date, calculate_total_weeks fails with       *)
(* ValueError exactly when lifespanYears <= 0 or lifespanYears > 150;      *)
(* lifespans 1 and 150 are accepted and yield a positive total.            *)
(***************************************************************************)
C14_LifespanRange ==
    (/\ call.op = "calculate_total_weeks"
     /\ ValidBirthDate(call.dob, call.now))
        => /\ (result.raised = "ValueError")
                 <=> (call.lifespan_years <= 0 \/ call.lifespan_years > 150)
           /\ result.raised \in {"None", "ValueError"}
           /\ call.lifespan_years \in {1, 150} =>
                 (result.raised = "None" /\ result.total_weeks > 0)

\* a lifespan of 150 years is accepted
C14_Witness ==
    /\ call.op = "calculate_total_weeks"
    /\ call.lifespan_years = 150
    /\ result.raised = "None"
    /\ result.total_weeks > 0

(***************************************************************************)
(* C15: for every valid birth date and week index < 0,                     *)
(* get_week_start_date, get_week_end_date, detect_special_week_type and    *)
(* get_week_summary fail with ValueError and return no date or summary;    *)
(* week index 0 is accepted by all four.  (detect_special_week_type and    *)
(* get_week_summary take a timezone as well, a valid one here.)            *)
(***************************************************************************)
WeekIndexOperations ==
    {"get_week_start_date", "get_week_end_date", "detect_special_week_type",
     "get_week_summary"}

\* the call takes no timezone, or a valid one
TimezoneArgumentValid ==
    call.op \in {"detect_special_week_type", "get_week_summary"}
        => ValidTimezone(call.timezone)

C15_NegativeWeekIndexRefused ==
    (/\ call.op \in WeekIndexOperations
     /\ ValidBirthDate(call.dob, call.now)
     /\ TimezoneArgumentValid)
        => /\ call.week_index < 0 => result = Raise("ValueError")
           /\ call.week_index = 0 => result.raised = "None"

\* get_week_summary refuses week index -1
C15_Witness ==
    /\ call.op = "get_week_summary"
    /\ ValidBirthDate(call.dob, call.now)
    /\ call.week_index < 0
    /\ result = Raise("ValueError")

(***************************************************************************)
(* C16: if computing a UTC offset fails on a day while the DST classifier  *)
(* walks the week, the failure is swallowed: the classifier returns false, *)
(* detect_special_week_type returns Normal when no earlier classifier      *)
(* matched, and get_week_summary succeeds.                                 *)
(***************************************************************************)
\* The walk of [from, to] in the zone comes to a failing offset computation:
\* the step at day x computes the offsets of x and x + 1, and the walk ends
\* at the first step that sees an offset change.
WalkMeetsFault(from, to, zone) ==
    /\ offset_fault \in from..(to + 1)
    /\ LET failing_step ==
               IF offset_fault - 1 > from THEN offset_fault - 1 ELSE from
       IN  \A x \in from..(failing_step - 1) : ~OffsetChangesAfter(zone, x)

\* the birthday, year-start and leap-day classifiers are false of the week
NoEarlierClassifierMatches ==
    LET bw == _is_birthday_week(call.dob, WeekStart, WeekEnd)
    IN  /\ bw.raised = "None" /\ ~bw.value
        /\ ~_is_year_start_week(WeekStart, WeekEnd)
        /\ ~_is_leap_day_week(WeekStart, WeekEnd)

\* a call that classifies a week in a zone with daylight saving time and
\* gets to a failing offset computation
FaultyWeekCall(op) ==
    /\ WeekCall(op)
    /\ ZoneOf(call.timezone) # "UTC"
    /\ NoEarlierClassifierMatches
    /\ WalkMeetsFault(WeekStart, WeekEnd, ZoneOf(call.timezone))

C16_OffsetFailureIsSwallowed ==
    /\ (/\ call.op = "_is_dst_transition_week"
        /\ call.timezone \notin {"None", "UTC"}
        /\ WalkMeetsFault(WeekStart, WeekEnd, call.timezone))
          => ~result.holds
    /\ FaultyWeekCall("detect_special_week_type")
          => (result.raised = "None" /\ result.week_type = "normal")
    /\ FaultyWeekCall("get_week_summary")
          => (result.raised = "None" /\ result.summary.week_type = "normal")

\* get_week_summary succeeds with Normal for a week in which the offset
\* changes after the day of the failure
C16_Witness ==
    /\ FaultyWeekCall("get_week_summary")
    /\ result.raised = "None"
    /\ result.summary.week_type = "normal"
    /\ \E x \in WeekStart..WeekEnd :
          OffsetChangesAfter(ZoneOf(call.timezone), x)

(***************************************************************************)
(* C17: every week-calculation endpoint whose errors go through            *)
(* handle_week_calculation_error answers a birth date later than today     *)
(* with a 400-class error tagged with the future-date kind and a birth     *)
(* date before 1900 with one tagged with the invalid-date kind; the only   *)
(* kinds ever surfaced are future-date, invalid-date, invalid-timezone and *)
(* the internal-error fallback.                                            *)
(***************************************************************************)
WeekEndpoints ==
    {"calculate_total_weeks_endpoint", "get_total_weeks", "quick_total_weeks",
     "calculate_current_week_endpoint", "get_current_week",
     "quick_current_week"}

SurfacedErrorKinds ==
    {"FutureDateError", "InvalidDateError", "InvalidTimezoneError",
     "InternalServerError"}

\* the response was made by handle_week_calculation_error
HandledError ==
    /\ call.op \in WeekEndpoints
    /\ result.response.error # "None"
    /\ result.response # validation_exception_handler

C17_FourErrorKinds ==
    HandledError =>
        /\ (IsDate(call.dob) /\ call.dob > today(call.now)) =>
              /\ result.response.status_code \in 400..499
              /\ result.response.error = "FutureDateError"
        /\ (IsDate(call.dob) /\ YearOf(call.dob) < 1900) =>
              /\ result.response.status_code \in 400..499
              /\ result.response.error = "InvalidDateError"
        /\ result.response.error \in SurfacedErrorKinds

(***************************************************************************)
(* Notes attached to weeks.                                                *)
(***************************************************************************)
\* the owner's current week index, computed in UTC from the stored birth date
OwnerCurrentWeek(user_id, now) ==
    calculate_current_week_index(users[user_id], "UTC", now)

\* a step in which create_note or update_note is called with a week number,
\* by an existing user whose current week can be computed and, for
\* update_note, on a note the user can see
WeekNoteWrite ==
    /\ call.op = "idle"
    /\ call'.op \in {"create_note", "update_note"}
    /\ call'.week_number >= 0
    /\ UserExists(call'.user_id)
    /\ OwnerCurrentWeek(call'.user_id, call'.now).raised = "None"
    /\ call'.op = "update_note" =>
          get_by_id(notes, call'.note_id, call'.user_id, FALSE) # 0

\* C18: create_note and update_note refuse a week_number greater than the
\* owner's current week index (computed in UTC from the stored birth date)
\* with a ValidationError and leave the stored notes, the target note among
\* them, as they were; every week_number in 0 .. current week is accepted
\* and stored.
C18_FutureWeekRefused ==
    [][WeekNoteWrite =>
          IF call'.week_number > OwnerCurrentWeek(call'.user_id, call'.now).value
          THEN /\ result'.raised = "ValidationError"
               /\ notes' = notes
          ELSE /\ result'.raised = "None"
               /\ result'.note.week_number = call'.week_number
               /\ notes'[result'.note.id].week_number = call'.week_number]_vars

\* update_note has refused the week after the owner's current week on a
\* stored note
C18_Witness ==
    /\ call.op = "update_note"
    /\ call.user_id = 1
    /\ get_by_id(notes, call.note_id, 1, FALSE) # 0
    /\ OwnerCurrentWeek(1, call.now).raised = "None"
    /\ call.week_number = OwnerCurrentWeek(1, call.now).value + 1
    /\ result.raised = "ValidationError"
    /\ result.message = "Cannot create notes for future weeks"
    /\ notes[call.note_id].week_number = OwnerCurrentWeek(1, call.now).value

\* the call of this step is made by an existing user whose birth date is
\* absent
CallByUserWithoutBirthDate ==
    /\ call.op = "idle"
    /\ call'.op # "idle"
    /\ UserExists(call'.user_id)
    /\ users[call'.user_id] = 0

\* the call of this step needs the birth date: create_note or update_note (of
\* a note the user can see) with a week number, or get_week_notes
NeedsBirthDate ==
    \/ call'.op = "create_note" /\ call'.week_number # NoWeek
    \/ /\ call'.op = "update_note"
       /\ call'.week_number # NoWeek
       /\ get_by_id(notes, call'.note_id, call'.user_id, FALSE) # 0
    \/ call'.op = "get_week_notes"

\* C19: for a user whose birth date is absent, create_note and update_note
\* with a non-null week_number and get_week_notes fail with the ValidationError
\* that names the missing birth date and store nothing, while create_note
\* without a week_number succeeds and stores the note.
C19_MissingBirthDate ==
    [][CallByUserWithoutBirthDate =>
          /\ NeedsBirthDate =>
                /\ result'.raised = "ValidationError"
                /\ result'.message = MissingBirthDate
                /\ notes' = notes
          /\ call'.op = "create_note" /\ call'.week_number = NoWeek =>
                /\ result'.raised = "None"
                /\ Len(notes') = Len(notes) + 1
                /\ notes'[result'.note.id].week_number = NoWeek
                /\ notes'[result'.note.id].owner_id = call'.user_id]_vars

\* a user without birth date has stored a note without a week and has then
\* been refused a week number for it
C19_Witness ==
    /\ users[1] = 0
    /\ call.op = "update_note"
    /\ call.user_id = 1
    /\ call.week_number # NoWeek
    /\ get_by_id(notes, call.note_id, 1, FALSE) # 0
    /\ notes[call.note_id].week_number = NoWeek
    /\ result.raised = "ValidationError"
    /\ result.message = MissingBirthDate

\* the call of this step names a stored note and is made by its owner
CallOnOwnNote ==
    /\ call.op = "idle"
    /\ call'.op \in {"get_note", "update_note", "delete_note", "restore_note"}
    /\ call'.note_id \in 1 .. Len(notes)
    /\ notes[call'.note_id].owner_id = call'.user_id

\* the call of this step names no stored note of the caller
CallOnMissingNote ==
    /\ call.op = "idle"
    /\ call'.op \in {"get_note", "update_note", "delete_note", "restore_note"}
    /\ \/ call'.note_id \notin 1 .. Len(notes)
       \/ notes[call'.note_id].owner_id # call'.user_id

\* every other row of the notes table is as it was
OtherNotesKept(note_id) ==
    /\ Len(notes') = Len(notes)
    /\ \A id \in 1 .. Len(notes) : id # note_id => notes'[id] = notes[id]

\* C20: over any sequence of calls on a note, a soft-deleted note is
\* invisible (get_note, update_note and delete_note raise NotFoundError and
\* change nothing) and delete_note soft-deletes a visible note; restore_note
\* succeeds on a soft-deleted note and raises NotFoundError on any other;
\* a successful restore clears is_deleted and deleted_at and keeps every
\* other column, title and content among them, and get_note finds a note
\* that is not soft-deleted.
C20_SoftDeleteAndRestore ==
    [][/\ CallOnMissingNote =>
             result'.raised = "NotFoundError" /\ notes' = notes
       /\ CallOnOwnNote =>
             LET id == call'.note_id IN
             IF notes[id].is_deleted
             THEN IF call'.op = "restore_note"
                  THEN /\ result'.raised = "None"
                       /\ result'.note.id = id
                       /\ notes'[id] = [notes[id] EXCEPT !.is_deleted = FALSE,
                                                         !.deleted_at = 0]
                       /\ OtherNotesKept(id)
                  ELSE /\ result'.raised = "NotFoundError"
                       /\ notes' = notes
             ELSE /\ call'.op = "restore_note" =>
                        result'.raised = "NotFoundError" /\ notes' = notes
                  /\ call'.op = "delete_note" =>
                        /\ result'.raised = "None"
                        /\ notes'[id] = [notes[id] EXCEPT
                                            !.is_deleted = TRUE,
                                            !.deleted_at = call'.now]
                        /\ OtherNotesKept(id)
                  /\ call'.op = "get_note" =>
                        /\ result'.raised = "None"
                        /\ result'.note.id = id
                        /\ result'.note.title = notes[id].title
                        /\ notes' = notes]_vars

\* a note whose title had been changed has been soft-deleted and restored
C20_Witness ==
    /\ call.op = "restore_note"
    /\ result.raised = "None"
    /\ result.note.id = call.note_id
    /\ result.note.title = "b"
    /\ ~notes[call.note_id].is_deleted
    /\ notes[call.note_id].deleted_at = 0
    /\ notes[call.note_id].title = "b"
    /\ notes[call.note_id].content = "x"

(***************************************************************************)
(* Repeated calls.                                                         *)
(***************************************************************************)
\* the summary with is_current_week left out
ClockFreeFields(summary) == [summary EXCEPT !.is_current_week = FALSE]

CurrentWeekEndpoints ==
    {"calculate_current_week_endpoint", "get_current_week",
     "quick_current_week"}

\* the civil date of the call's clock reading in the timezone of the call
\* (UTC for a call that names none)
CallDate ==
    date_of(datetime_now(IF call.timezone = "-" THEN "UTC"
                         ELSE ZoneOf(call.timezone), call.now))

\* C22: in every calculate_life_progress result and in every current-week
\* response of the API, weeks_lived is current_week_index + 1; it is 1 when
\* the birth date is today.
C22_WeeksLivedIsIndexPlusOne ==
    /\ (call.op = "calculate_life_progress" /\ result.raised = "None") =>
          /\ result.progress.weeks_lived
                = result.progress.current_week_index + 1
          /\ call.dob = CallDate => result.progress.weeks_lived = 1
    /\ (call.op \in CurrentWeekEndpoints /\ result.response.status_code = 200)
          => /\ result.response.weeks_lived
                   = result.response.current_week_index + 1
             /\ call.dob = CallDate => result.response.weeks_lived = 1

\* GET /weeks/current for a person born today answers weeks_lived 1
C22_Witness ==
    /\ call.op = "get_current_week"
    /\ call.dob = CallDate
    /\ result.response.status_code = 200
    /\ result.response.current_week_index = 0
    /\ result.response.weeks_lived = 1

(***************************************************************************)
(* The two clock readings of calculate_life_progress.                      *)
(***************************************************************************)
\* the current week index of the call's birth date and timezone at a clock
\* reading
CurrentWeekAt(t) ==
    calculate_current_week_index(call.dob, call.timezone, t).value

\* C23: calculate_life_progress and the get_week_summary it calls read the
\* clock independently: a result reports the week of the first reading as
\* current_week_index, and its current_week_info.is_current_week is false
\* when the clock has crossed a week boundary of the life before the second
\* reading; when the clock does not advance during the call
\* is_current_week is true.
C23_NestedClockReading ==
    (call.op = "calculate_life_progress" /\ result.raised = "None") =>
        LET r == result.progress IN
        /\ r.current_week_index = CurrentWeekAt(call.now)
        /\ r.current_week_info.week_index = r.current_week_index
        /\ CurrentWeekAt(clock) # CurrentWeekAt(call.now)
              => ~r.current_week_info.is_current_week
        /\ clock = call.now => r.current_week_info.is_current_week

\* the clock went past local midnight into the next week of the life during
\* the call
C23_Witness ==
    /\ call.op = "calculate_life_progress"
    /\ result.raised = "None"
    /\ clock = call.now + 5
    /\ CurrentWeekAt(clock) = CurrentWeekAt(call.now) + 1
    /\ result.progress.current_week_info.week_index = CurrentWeekAt(call.now)
    /\ ~result.progress.current_week_info.is_current_week

(***************************************************************************)
(* The current date and the birth date.                                    *)
(***************************************************************************)
\* C24: in calculate_current_week_index(birthDate, tz), once the validation
\* of the birth date has passed, the current civil date in tz is never
\* earlier than birthDate, so that the branch that clamps a negative day
\* difference to 0 is never taken.
C24_CurrentDateNotBeforeBirthDate ==
    (/\ call.op = "calculate_current_week_index"
     /\ validate_date_of_birth(call.dob, call.now) = "None"
     /\ ValidTimezone(call.timezone))
        => CallDate >= call.dob

\* C25: every calculate_life_progress result computed with a clock that does
\* not advance during the call, in every timezone, has days_lived >= 0, a
\* current_age whose years, months and days are not negative, and
\* current_week_index = floor(days_lived / 7).
C25_DaysLivedAndAge ==
    (/\ call.op = "calculate_life_progress"
     /\ result.raised = "None"
     /\ clock = call.now)
        => LET r == result.progress IN
           /\ r.days_lived >= 0
           /\ r.current_age.years >= 0
           /\ r.current_age.months >= 0
           /\ r.current_age.days >= 0
           /\ 7 * r.current_week_index <= r.days_lived
           /\ r.days_lived < 7 * (r.current_week_index + 1)

(***************************************************************************)
(* Notes and the owner's current week.                                     *)
(***************************************************************************)
\* the note is stored, not soft-deleted, attached to a week, and its owner
\* has a current week index at the clock
WeekNoteOfLivingOwner(id) ==
    /\ id \in 1 .. Len(notes)
    /\ ~notes[id].is_deleted
    /\ notes[id].week_number # NoWeek
    /\ OwnerCurrentWeek(notes[id].owner_id, clock).raised = "None"

\* C26: after any sequence of create_note, update_note, changes of a user's
\* birth date (update_user, find_or_create_user_by_name) and clock advances,
\* every stored note that is not soft-deleted and has a week_number has
\* week_number <= the owner's current week index: no note sits in a future
\* week.
C26_NoNoteInAFutureWeek ==
    \A id \in 1 .. MaxNotes :
        WeekNoteOfLivingOwner(id) =>
            notes[id].week_number
                <= OwnerCurrentWeek(notes[id].owner_id, clock).value

(***************************************************************************)
(* Offset changes and the weeks of a life.                                 *)
(***************************************************************************)
\* the index of the week of the life that contains day d
WeekContaining(d) == (d - call.dob) \div 7

\* the days of the week of the call and of the weeks next to it, from the
\* birth date on
DaysAroundWeek == {d \in (WeekStart - 7) .. (WeekEnd + 7) : d >= call.dob}

\* C27: for a fixed birth date and timezone, a change of the UTC offset at
\* local midnight between consecutive days d and d + 1, d on or after the
\* birth date, makes the DST classifier true for the week that contains d
\* and for no other: the classifier is true of a week exactly when a change
\* falls on one of its days, so none is missed and none is counted for the
\* week before or after.
C27_OffsetChangeBelongsToOneWeek ==
    call.op = "_is_dst_transition_week" =>
        LET zone == ZoneOfTzInfo(call.timezone) IN
        /\ \A d \in DaysAroundWeek :
              (OffsetChangesAfter(zone, d)
                  /\ WeekContaining(d) = call.week_index) => result.holds
        /\ result.holds =>
              \E d \in DaysAroundWeek :
                  /\ OffsetChangesAfter(zone, d)
                  /\ WeekContaining(d) = call.week_index
        /\ \A d \in DaysAroundWeek :
              (/\ OffsetChangesAfter(zone, d)
               /\ WeekContaining(d) = call.week_index
               /\ \A e \in (WeekEnd + 1) .. (WeekEnd + 7) :
                     ~OffsetChangesAfter(zone, e))
                 => ~_is_dst_transition_week(WeekStart + 7, WeekEnd + 7,
                                             call.timezone)

\* the offset changes after the first day of the following week only, and
\* the classifier does not hold of the week of the call
C27_Witness ==
    /\ call.op = "_is_dst_transition_week"
    /\ ~result.holds
    /\ OffsetChangesAfter(ZoneOfTzInfo(call.timezone), WeekEnd + 1)
    /\ \A d \in WeekStart .. WeekEnd :
          ~OffsetChangesAfter(ZoneOfTzInfo(call.timezone), d)
    /\ _is_dst_transition_week(WeekStart + 7, WeekEnd + 7, call.timezone)

(***************************************************************************)
(* The rate limited endpoints: a request under one of the three limits     *)
(* goes through the wrapper of rate_limit, which lets it through or        *)
(* answers 429.                                                            *)
(***************************************************************************)
\* at most MaxRequests requests are let through
MaxRequests == 11

\* time passes in steps of half a window, MaxElapses times
MaxElapses == 2

ElapseSeconds == WindowSeconds \div 2

TotalAdmitted ==
    Len(admitted["user_read_rate_limit"]) + Len(admitted["user_write_rate_limit"])
        + Len(admitted["user_auth_rate_limit"])

\* a request to an endpoint decorated with the limit `name`: the Request of
\* its host is among the arguments of the endpoint if the endpoint declares
\* it, and no Request is among them otherwise
RateLimited(name) ==
    /\ TotalAdmitted < MaxRequests
    /\ \E host \in (IF request_given THEN Hosts ELSE {"-"}) :
          LET r == rate_limit(clients, host, LimitOf(name), WindowSeconds, uptime)
          IN  /\ call' = [Idle EXCEPT !.op = name, !.now = uptime, !.host = host]
              /\ result' = IF r.allowed
                           THEN [raised |-> "None"]
                           ELSE [raised |-> "HTTPException", status_code |-> 429]
              /\ clients' = r.clients
              /\ admitted' = IF r.allowed
                             THEN [admitted EXCEPT ![name] = Append(@, uptime)]
                             ELSE admitted
    /\ UNCHANGED <<clock, ticks, environment, database, uptime, request_given>>

UserReadRateLimit ==
    /\ call.op = "idle"
    /\ RateLimited("user_read_rate_limit")

UserWriteRateLimit ==
    /\ call.op = "idle"
    /\ RateLimited("user_write_rate_limit")

UserAuthRateLimit ==
    /\ call.op = "idle"
    /\ RateLimited("user_auth_rate_limit")

\* time.time() advances between requests
Elapse ==
    /\ call.op = "idle"
    /\ uptime < MaxElapses * ElapseSeconds
    /\ uptime' = uptime + ElapseSeconds
    /\ UNCHANGED <<clock, ticks, environment, database, clients, admitted,
                   request_given, call, result>>

RateNext ==
    \/ Elapse
    \/ UserReadRateLimit
    \/ UserWriteRateLimit
    \/ UserAuthRateLimit
    \/ Done

\* the endpoints as api/v1/users.py declares them, without a Request, and
\* the endpoints declared with one, as the wrapper expects them
RateInit ==
    /\ clock = ClockStart
    /\ server_tz \in ServerZones
    /\ offset_fault = 0
    /\ ticks = 0
    /\ call = Idle
    /\ result = NoResult
    /\ users = << >>
    /\ notes = << >>
    /\ edit_history = << >>
    /\ json_tracking = "-"
    /\ clients = [client_id \in ClientIds |-> << >>]
    /\ uptime = 0
    /\ admitted = [name \in RateLimits |-> << >>]
    /\ request_given \in BOOLEAN

RateSpec == RateInit /\ [][RateNext]_vars

(***************************************************************************)
(* C28: a request under a limit is let through whenever fewer requests     *)
(* under that same limit than the limit allows (300 read, 50 write, 10     *)
(* auth) were let through for the client in the preceding 3600 seconds,    *)
(* whatever the client's requests under the other limits.                  *)
(***************************************************************************)
\* the requests under the limit of the call that were let through within
\* the window before the call, the call itself not counted
AdmittedBeforeCall ==
    AdmittedWithin(admitted, call.op, call.now)
        - (IF result.raised = "None" THEN 1 ELSE 0)

HistoryBefore(note_id) ==
    IF note_id \in DOMAIN edit_history THEN edit_history[note_id] ELSE << >>

Smaller(a, b) == IF a < b THEN a ELSE b

\* the edit types a call writes
EditTypesOf(op) ==
    CASE op = "create_note"  -> {"create"}
      [] op = "update_note"  -> {"update"}
      [] op = "delete_note"  -> {"delete"}
      [] op = "restore_note" -> {"restore"}
      [] OTHER -> {}

\* the history of the note goes from `before` to `after` by adding n entries
\* of the call just made
AddsEntries(before, after, n) ==
    /\ Len(after) = Smaller(Len(before) + n, HistoryLimit)
    /\ n <= Len(after)
    /\ SubSeq(after, 1, Len(after) - n) = LastEntries(before, Len(after) - n)
    /\ \A j \in (Len(after) - n + 1) .. Len(after) :
          /\ after[j].timestamp = call'.now
          /\ after[j].edit_type \in EditTypesOf(call'.op)

HistoryStep ==
    \A note_id \in DOMAIN edit_history' :
        edit_history'[note_id] # HistoryBefore(note_id)
            => \E n \in 1 .. 3 :
                  AddsEntries(HistoryBefore(note_id), edit_history'[note_id], n)

C29_EditHistoryKeepsTheLastFifty ==
    /\ [](\A note_id \in DOMAIN edit_history :
              Len(edit_history[note_id]) <= HistoryLimit)
    /\ [][HistoryStep]_vars

\* a call added its entry to a full history: the entry of the creation is
\* gone and the entry of the call is the last of 50
C29_Witness ==
    /\ call.op \in {"update_note", "delete_note", "restore_note"}
    /\ result.raised = "None"
    /\ Len(edit_history[call.note_id]) = HistoryLimit
    /\ edit_history[call.note_id][1].edit_type # "create"
    /\ edit_history[call.note_id][HistoryLimit].timestamp = call.now
    /\ edit_history[call.note_id][HistoryLimit].edit_type
           \in EditTypesOf(call.op)

(***************************************************************************)
(* C30: a validation failure is that of the first failing check.           *)
(* calculate_total_weeks given a birth date that is not valid and a        *)
(* lifespan out of range raises the error of the birth date                *)
(* (FutureDateError or InvalidDateError), never the range error;           *)
(* calculate_life_progress given a valid birth date and lifespan and an    *)
(* unknown timezone raises InvalidTimezoneError and returns no part of a   *)
(* result.                                                                 *)
(***************************************************************************)
\* the birth date of the call is no date, lies after the day of the call or
\* before 1900
BirthDateNotValid ==
    \/ ~IsDate(call.dob)
    \/ call.dob > today(call.now)
    \/ YearOf(call.dob) < 1900

LifespanOutOfRange == call.lifespan_years <= 0 \/ call.lifespan_years > 150

C30_FirstFailingCheckIsRaised ==
    /\ (/\ call.op = "calculate_total_weeks"
        /\ BirthDateNotValid
        /\ LifespanOutOfRange)
           => /\ result.raised \in {"FutureDateError", "InvalidDateError"}
              /\ DOMAIN result = {"raised"}
    /\ (/\ call.op = "calculate_life_progress"
        /\ ~BirthDateNotValid
        /\ ~LifespanOutOfRange
        /\ ~ValidTimezone(call.timezone))
           => result = [raised |-> "InvalidTimezoneError"]

\* a birth date in the future with a lifespan of 151 years
C30_Witness ==
    /\ call.op = "calculate_total_weeks"
    /\ IsDate(call.dob)
    /\ call.dob > today(call.now)
    /\ call.lifespan_years > 150
    /\ result.raised = "FutureDateError"

\* a valid birth date and lifespan with a timezone the zone database does
\* not know
C30_UnknownTimezoneRaised ==
    /\ call.op = "calculate_life_progress"
    /\ ~BirthDateNotValid
    /\ ~LifespanOutOfRange
    /\ ~ValidTimezone(call.timezone)
    /\ result.raised = "InvalidTimezoneError"

====
